---- MODULE Spec2Model ----
(***************************************************************************)
(* Verification model of two subsystems of slurm:                          *)
(*   - the per-job I/O multiplexing engine of slurmd (src/slurmd/io.c)     *)
(*   - the layouts manager's generic get/set API (common/layouts_mgr.c)    *)
(* Each subsystem has its own specification (SpecIO, SpecLM); the          *)
(* variables of the other subsystem stay at their initial value.           *)
(***************************************************************************)
EXTENDS Integers, Sequences, FiniteSets, TLC

\* the I/O engine of one job
VARIABLES job, ctl, io, delivered, produced, loop, crashed, rc, hist

\* the layouts manager with one tree layout and one key
VARIABLES tree, edata, vector, lrc, lcrashed, call, ncalls, struct_type, lhung

\* concurrent callers of the layouts API: each caller's position in
\* layouts_api, and the entity values before the first call
VARIABLES thr, edata0

\* the layouts manager loading its configuration: the registry and the
\* plugin's tree, the configuration it reads, the status of the last load
VARIABLES mgr, conf, ldrc, ldcrashed, nloads

\* the manager's pointers (plugins, layouts_desc and the three registries),
\* the status of the last slurm_layouts_fini, the registries that call handed
\* to xhash_free after they had been released, and the number of calls
VARIABLES ptrs, finrc, refreed, nfinis

\* the plugins and key definitions slurm_layouts_init registered, and what
\* the last look-up of a layout type and key found
VARIABLES plugins, keydefs, resolved

\* the manager's mutex, and how many times the last teardown released each
\* of the manager's objects
VARIABLES lock, released

iovars == <<job, ctl, io, delivered, produced, loop, crashed, rc, hist>>

lmvars == <<tree, edata, vector, lrc, lcrashed, call, ncalls, struct_type, lhung,
            thr, edata0>>

ldvars == <<mgr, conf, ldrc, ldcrashed, nloads, ptrs, finrc, refreed, nfinis,
            plugins, keydefs, resolved, released>>

vars == <<iovars, lmvars, ldvars, lock>>

(***************************************************************************)
(* Bounds of the I/O model                                                 *)
(***************************************************************************)
MaxBytes == 2        \* bytes read from the task's pipes and from the clients together
ClientBufMax == 1    \* capacity of a client buffer (scaled)
TaskInBufMax == 1    \* capacity of the task stdin buffer (scaled)

NIL == 0
NOFD == -1

(***************************************************************************)
(* Generic list helpers (src/common/list.h as used by io.c)                *)
(***************************************************************************)
InSeq(s, x) == \E i \in 1..Len(s) : s[i] = x

DeleteAll(s, x) == SelectSeq(s, LAMBDA e : e # x)

Range(s) == {s[i] : i \in 1..Len(s)}

Take(s, n) == SubSeq(s, 1, n)

Drop(s, n) == SubSeq(s, n + 1, Len(s))

\* the bytes k+1 .. n of a task stream, in production order
Bytes(k, n) == [i \in 1..(n - k) |-> k + i]

\* task data bytes are positive, header bytes are 0
Data(s) == SelectSeq(s, LAMBDA b : b > 0)

(***************************************************************************)
(* The dispatch tables of the object types                                *)
(***************************************************************************)
task_out_ops == [readable |-> TRUE, writable |-> FALSE,
                 handle_read |-> "task_read", handle_write |-> "none"]

task_in_ops == [readable |-> FALSE, writable |-> TRUE,
                handle_read |-> "none", handle_write |-> "write"]

client_ops == [readable |-> TRUE, writable |-> TRUE,
               handle_read |-> "client_read", handle_write |-> "write"]

connecting_client_ops == [readable |-> FALSE, writable |-> TRUE,
                          handle_read |-> "none",
                          handle_write |-> "connecting_write"]

isa_client(g, o) == g.otype[o] \in {"CLIENT_STDOUT", "CLIENT_STDERR", "CLIENT_STDIN"}

\* which lists _io_obj creates for a type (the others stay NULL)
HasReaders(t) == t \in {"TASK_STDERR", "TASK_STDOUT", "CLIENT_STDOUT", "CLIENT_STDIN"}

HasWriters(t) == t \in {"TASK_STDIN", "CLIENT_STDOUT", "CLIENT_STDERR"}

\* capacity given to cbuf_create by _io_obj
BufCap(t) == IF t = "TASK_STDIN" THEN TaskInBufMax ELSE ClientBufMax

\* the descriptors: the task's pipes are 1, 2, 3; object o's socket or file
\* is 3 + o
TaskInFd == 1
TaskOutFd == 2
TaskErrFd == 3
FdOf(o) == 3 + o
Fds == 1..FdOf(10)

\* the objects _io_prepare_tasks creates for the task
TIN == 1
TOUT == 2
GOUT == 3
TERR == 4
GERR == 5

(***************************************************************************)
(* cbuf (src/common/cbuf.c is not part of the sources at hand): a bounded  *)
(* buffer; a write accepts what fits and drops the excess.                 *)
(***************************************************************************)
Min(a, b) == IF a < b THEN a ELSE b

cbuf_write(b, data, cap) ==
    LET n == Min(Len(data), cap - Len(b))
    IN  [buf |-> b \o Take(data, n), n |-> n, dropped |-> Len(data) - n]

(***************************************************************************)
(* Object creation                                                         *)
(***************************************************************************)
io_obj(g, newfd, type) ==
    LET o == g.nobj + 1
    IN  [g EXCEPT !.nobj = o,
                  !.otype[o] = type,
                  !.fd[o] = newfd,
                  !.ops[o] = CASE type \in {"TASK_STDERR", "TASK_STDOUT"} -> task_out_ops
                               [] type = "TASK_STDIN" -> task_in_ops
                               [] OTHER -> client_ops,
                  !.buf[o] = <<>>,
                  !.eof[o] = FALSE,
                  !.disc[o] = (newfd < 0),
                  !.readers[o] = <<>>,
                  !.writers[o] = <<>>]

(***************************************************************************)
(* Attach                                                                  *)
(***************************************************************************)
\* variant: the two objects are connected the wrong way round
io_connect_objs_swapped(g, src, dst) ==
    [g EXCEPT !.readers[dst] = IF InSeq(@, src) THEN @ ELSE Append(@, src),
              !.writers[src] = IF InSeq(@, dst) THEN @ ELSE Append(@, dst)]

io_connect_objs(g, src, dst) ==
    [g EXCEPT !.readers[src] = IF InSeq(@, dst) THEN @ ELSE Append(@, dst),
              !.writers[dst] = IF InSeq(@, src) THEN @ ELSE Append(@, src)]

list_peek(s) == IF s = <<>> THEN NIL ELSE Head(s)

\* variant: the resurrected ghost starts from the new client's buffer
io_client_attach_fresh(g, client, writer, reader) ==
    IF writer = NIL
    THEN [io_connect_objs(g, client, reader) EXCEPT !.objs = Append(@, client)]
    ELSE LET first == list_peek(g.readers[writer])
         IN  IF first # NIL /\ g.disc[first]
             THEN LET g1 == [g EXCEPT !.fd[first] = g.fd[client],
                                      !.disc[first] = FALSE,
                                      !.ops[first] = g.ops[client],
                                      !.buf[first] = g.buf[client],
                                      !.objs = DeleteAll(@, client)]
                  IN  IF reader # NIL THEN io_connect_objs(g1, first, reader) ELSE g1
             ELSE LET g1 == [g EXCEPT !.eof[client] =
                                          IF first # NIL THEN g.eof[first] ELSE FALSE]
                      g2 == io_connect_objs(g1, writer, client)
                      g3 == IF reader # NIL THEN io_connect_objs(g2, client, reader) ELSE g2
                  IN  [g3 EXCEPT !.objs = Append(@, client)]

\* variant: a new client is always appended, a ghost is never reused
io_client_attach_append(g, client, writer, reader) ==
    IF writer = NIL
    THEN [io_connect_objs(g, client, reader) EXCEPT !.objs = Append(@, client)]
    ELSE LET first == list_peek(g.readers[writer])
             g1 == [g EXCEPT !.eof[client] =
                                 IF first # NIL THEN g.eof[first] ELSE FALSE]
             g2 == io_connect_objs(g1, writer, client)
             g3 == IF reader # NIL THEN io_connect_objs(g2, client, reader) ELSE g2
         IN  [g3 EXCEPT !.objs = IF InSeq(@, client) THEN @ ELSE Append(@, client)]

\* variant: the emptied new client is left on the job's object list
io_client_attach_keep(g, client, writer, reader) ==
    IF writer = NIL
    THEN [io_connect_objs(g, client, reader) EXCEPT !.objs = Append(@, client)]
    ELSE LET first == list_peek(g.readers[writer])
         IN  IF first # NIL /\ g.disc[first]
             THEN LET g1 == [g EXCEPT !.fd[first] = g.fd[client],
                                      !.disc[first] = FALSE,
                                      !.ops[first] = g.ops[client]]
                  IN  IF reader # NIL THEN io_connect_objs(g1, first, reader) ELSE g1
             ELSE LET g1 == [g EXCEPT !.eof[client] =
                                          IF first # NIL THEN g.eof[first] ELSE FALSE]
                      g2 == io_connect_objs(g1, writer, client)
                      g3 == IF reader # NIL THEN io_connect_objs(g2, client, reader) ELSE g2
                  IN  [g3 EXCEPT !.objs = Append(@, client)]

io_client_attach(g, client, writer, reader) ==
    IF writer = NIL
    THEN [io_connect_objs(g, client, reader) EXCEPT !.objs = Append(@, client)]
    ELSE LET first == list_peek(g.readers[writer])
         IN  IF first # NIL /\ g.disc[first]
             THEN \* resurrect the ghost
                  LET g1 == [g EXCEPT !.fd[first] = g.fd[client],
                                      !.disc[first] = FALSE,
                                      !.ops[first] = g.ops[client],
                                      !.objs = DeleteAll(@, client)]
                  IN  IF reader # NIL THEN io_connect_objs(g1, first, reader) ELSE g1
             ELSE \* append the new client
                  LET g1 == [g EXCEPT !.eof[client] =
                                          IF first # NIL THEN g.eof[first] ELSE FALSE]
                      g2 == io_connect_objs(g1, writer, client)
                      g3 == IF reader # NIL THEN io_connect_objs(g2, client, reader) ELSE g2
                  IN  [g3 EXCEPT !.objs = Append(@, client)]

(***************************************************************************)
(* Disconnect                                                              *)
(***************************************************************************)
\* remove dst from src's readers and src from dst's writers
io_disconnect(g, src, dst) ==
    [g EXCEPT !.readers[src] = DeleteAll(@, dst),
              !.writers[dst] = DeleteAll(@, src)]

\* list_delete_all is handed a NULL list when the type has no such list
io_disconnect_null(g, src, dst) ==
    ~HasReaders(g.otype[src]) \/ ~HasWriters(g.otype[dst])

RECURSIVE disconnect_writers(_, _, _)
disconnect_writers(st, client, ws) ==
    IF ws = <<>> THEN st
    ELSE LET t == Head(ws)
             hit == Len(st.g.readers[t]) > 1
             st1 == IF hit
                    THEN [g |-> io_disconnect(st.g, client, t),
                          destroy |-> TRUE,
                          null |-> st.null \/ io_disconnect_null(st.g, client, t)]
                    ELSE st
         IN  disconnect_writers(st1, client, Tail(ws))

RECURSIVE disconnect_readers(_, _, _)
disconnect_readers(st, client, rs) ==
    IF rs = <<>> THEN st
    ELSE LET t == Head(rs)
             hit == Len(st.g.writers[t]) > 1
             st1 == IF hit
                    THEN [st EXCEPT !.g = io_disconnect(st.g, t, client),
                                    !.null = st.null \/ io_disconnect_null(st.g, t, client)]
                    ELSE st
         IN  disconnect_readers(st1, client, Tail(rs))

\* variant: the client is taken off the job's object list at every disconnect
io_disconnect_client_destroy(g, client) ==
    LET st0 == [g |-> [g EXCEPT !.disc[client] = TRUE], destroy |-> FALSE, null |-> FALSE]
        st1 == disconnect_writers(st0, client, g.writers[client])
        st2 == disconnect_readers(st1, client, g.readers[client])
    IN  [g |-> [st2.g EXCEPT !.objs = DeleteAll(@, client)], null |-> st2.null]

\* result: the graph, and whether a NULL list was handed to list_delete_all
io_disconnect_client(g, client) ==
    LET st0 == [g |-> [g EXCEPT !.disc[client] = TRUE], destroy |-> FALSE, null |-> FALSE]
        st1 == disconnect_writers(st0, client, g.writers[client])
        st2 == disconnect_readers(st1, client, g.readers[client])
    IN  [g |-> IF st2.destroy
               THEN [st2.g EXCEPT !.objs = DeleteAll(@, client)]
               ELSE st2.g,
         null |-> st2.null]

shutdown_task_obj(g, t) ==
    LET l == IF g.otype[t] = "TASK_STDIN" THEN g.writers[t] ELSE g.readers[t]
    IN  [g EXCEPT !.eof = [o \in DOMAIN g.eof |-> IF InSeq(l, o) THEN TRUE ELSE g.eof[o]]]

obj_close(g, o) ==
    LET g1 == [g EXCEPT !.fd[o] = NOFD]
    IN  IF isa_client(g1, o)
        THEN io_disconnect_client(g1, o)
        ELSE [g |-> shutdown_task_obj(g1, o), null |-> FALSE]

(***************************************************************************)
(* Readiness                                                               *)
(***************************************************************************)
readable(g, o) == ~g.disc[o] /\ ~g.eof[o] /\ g.fd[o] > 0

writable(g, o) == ~g.disc[o] /\ (Len(g.buf[o]) > 0 \/ g.eof[o])

PollIn(g, o) == InSeq(g.objs, o) /\ g.ops[o].readable /\ readable(g, o)

PollOut(g, o) == InSeq(g.objs, o) /\ g.ops[o].writable /\ writable(g, o)

\* five objects per task, two connections to srun, three files
Objs == 1..10

Running == loop = "running" /\ ~crashed

TotalOut == produced[TOUT] + produced[TERR]

(***************************************************************************)
(* Bookkeeping used only to state properties: the length of a list when a  *)
(* client on it was last closed, the client last closed by a read EOF, the *)
(* buffer handed over at each later attach, and the buffers that dropped.  *)
(***************************************************************************)
HistInit == [lenAtClose |-> [w \in {TOUT, TERR} |-> 0],
             eofGhost   |-> [w \in {TOUT, TERR} |-> NIL],
             reattach   |-> {},
             dropped    |-> {},
             unprocessed |-> [w \in {TOUT, TERR} |-> 0]]

HistClose(h, g, o, byEof) ==
    [h EXCEPT !.lenAtClose = [w \in {TOUT, TERR} |->
                                 IF InSeq(g.writers[o], w) THEN Len(g.readers[w])
                                 ELSE h.lenAtClose[w]],
              !.eofGhost = [w \in {TOUT, TERR} |->
                                 IF byEof /\ InSeq(g.writers[o], w) THEN o
                                 ELSE h.eofGhost[w]]]

HistAttach(h, g, client, writer, reader) ==
    [h EXCEPT !.lenAtClose = [w \in {TOUT, TERR} |->
                                 IF w = writer THEN 0 ELSE h.lenAtClose[w]],
              !.eofGhost = [w \in {TOUT, TERR} |->
                                 IF w = writer THEN NIL ELSE h.eofGhost[w]],
              !.reattach = IF writer # NIL /\ h.eofGhost[writer] # NIL
                           THEN @ \cup {[fd   |-> g.fd[client],
                                         w    |-> writer,
                                         old  |-> h.eofGhost[writer],
                                         pre  |-> g.buf[h.eofGhost[writer]],
                                         base |-> produced[writer]]}
                           ELSE @]

(***************************************************************************)
(* Handlers run by the event loop                                          *)
(***************************************************************************)
\* variant: the bytes read are appended to every reader whatever its room
RECURSIVE task_fanout_unbounded(_, _, _, _)
task_fanout_unbounded(g, rs, data, dropset) ==
    IF rs = <<>> THEN [g |-> g, dropped |-> dropset]
    ELSE task_fanout_unbounded([g EXCEPT !.buf[Head(rs)] = @ \o data],
                               Tail(rs), data, dropset)

\* copy the bytes read to every reader; n is overwritten by each cbuf_write
RECURSIVE task_fanout(_, _, _, _)
task_fanout(g, rs, data, dropset) ==
    IF rs = <<>> THEN [g |-> g, dropped |-> dropset]
    ELSE LET r == Head(rs)
             w == cbuf_write(g.buf[r], data, BufCap(g.otype[r]))
         IN  task_fanout([g EXCEPT !.buf[r] = w.buf], Tail(rs), Take(data, w.n),
                         IF w.dropped > 0 THEN dropset \cup {r} ELSE dropset)

\* the outcome of a close that may have handed a NULL list to list_delete_all:
\* the process dies, or the call is harmless
CloseOutcome(c, o, byEof, ret) ==
    \/ /\ io' = c.g
       /\ hist' = IF isa_client(io, o) THEN HistClose(hist, io, o, byEof) ELSE hist
       /\ rc' = ret
       /\ UNCHANGED crashed
    \/ /\ c.null
       /\ crashed' = TRUE
       /\ UNCHANGED <<io, hist, rc>>

\* read() on a task pipe returned n > 0 bytes
TaskReadData(o) ==
    /\ Running /\ PollIn(io, o) /\ io.ops[o].handle_read = "task_read"
    /\ \E n \in 1..MaxBytes :
          /\ TotalOut + produced[TIN] + n <= MaxBytes
          /\ LET k == produced[o]
                 f == task_fanout(io, io.readers[o], Bytes(k, k + n), {})
             IN  /\ io' = f.g
                 /\ produced' = [produced EXCEPT ![o] = k + n]
                 /\ hist' = [hist EXCEPT !.dropped = @ \cup f.dropped]
    /\ rc' = 0
    /\ UNCHANGED <<job, ctl, delivered, loop, crashed>>
    /\ UNCHANGED <<lmvars, ldvars, lock>>

\* read() on a task pipe returned 0
TaskReadEof(o) ==
    /\ Running /\ PollIn(io, o) /\ io.ops[o].handle_read = "task_read"
    /\ CloseOutcome(obj_close(io, o), o, FALSE, 0)
    /\ UNCHANGED <<job, ctl, delivered, produced, loop>>
    /\ UNCHANGED <<lmvars, ldvars, lock>>

\* read() on a task pipe failed: EAGAIN returns 0, another error returns -1
TaskReadErr(o, e) ==
    /\ Running /\ PollIn(io, o) /\ io.ops[o].handle_read = "task_read"
    /\ rc' = IF e = "EAGAIN" THEN 0 ELSE -1
    /\ UNCHANGED <<job, ctl, io, delivered, produced, loop, crashed, hist>>
    /\ UNCHANGED <<lmvars, ldvars, lock>>

TaskReadFail(o) == \E e \in {"EAGAIN", "EIO"} : TaskReadErr(o, e)

RECURSIVE client_fanout(_, _, _)
client_fanout(g, rs, data) ==
    IF rs = <<>> THEN g
    ELSE LET r == Head(rs)
             w == cbuf_write(g.buf[r], data, BufCap(g.otype[r]))
         IN  client_fanout([g EXCEPT !.buf[r] = w.buf], Tail(rs), Take(data, w.n))

\* read() on a client returned n > 0 bytes
ClientReadData(o) ==
    /\ Running /\ PollIn(io, o) /\ io.ops[o].handle_read = "client_read"
    /\ TotalOut + produced[TIN] < MaxBytes
    /\ produced' = [produced EXCEPT ![TIN] = @ + 1]
    /\ io' = IF io.otype[o] = "CLIENT_STDERR" THEN io
             ELSE client_fanout(io, io.readers[o], <<produced[TIN] + 1>>)
    /\ rc' = 0
    /\ UNCHANGED <<job, ctl, delivered, loop, crashed, hist>>
    /\ UNCHANGED <<lmvars, ldvars, lock>>

\* read() on a client returned 0: the client is disconnected
ClientReadEof(o) ==
    /\ Running /\ PollIn(io, o) /\ io.ops[o].handle_read = "client_read"
    /\ CloseOutcome(obj_close(io, o), o, TRUE, 0)
    /\ UNCHANGED <<job, ctl, delivered, produced, loop>>
    /\ UNCHANGED <<lmvars, ldvars, lock>>

\* read() on a client failed: EAGAIN is fatal(), another error returns -1
ClientReadErr(o, e) ==
    /\ Running /\ PollIn(io, o) /\ io.ops[o].handle_read = "client_read"
    /\ IF e = "EAGAIN"
       THEN crashed' = TRUE /\ UNCHANGED rc
       ELSE rc' = -1 /\ UNCHANGED crashed
    /\ UNCHANGED <<job, ctl, io, delivered, produced, loop, hist>>
    /\ UNCHANGED <<lmvars, ldvars, lock>>

ClientReadFail(o) == \E e \in {"EAGAIN", "EIO"} : ClientReadErr(o, e)

\* _write when the object has its EOF flag set and nothing left to write
WriteClose(o) ==
    /\ Running /\ PollOut(io, o) /\ io.ops[o].handle_write = "write"
    /\ io.eof[o] /\ Len(io.buf[o]) = 0
    /\ io.fd[o] > 0
    /\ CloseOutcome(obj_close(io, o), o, FALSE, 0)
    /\ UNCHANGED <<job, ctl, delivered, produced, loop>>
    /\ UNCHANGED <<lmvars, ldvars, lock>>

\* _write: cbuf_read_to_fd moved n bytes of the buffer to the descriptor
WriteData(o) ==
    /\ Running /\ PollOut(io, o) /\ io.ops[o].handle_write = "write"
    /\ ~(io.eof[o] /\ Len(io.buf[o]) = 0)
    /\ io.fd[o] > 0
    /\ \E n \in 1..Len(io.buf[o]) :
          /\ delivered' = [delivered EXCEPT ![io.fd[o]] = @ \o Take(io.buf[o], n)]
          /\ io' = [io EXCEPT !.buf[o] = Drop(@, n)]
    /\ rc' = 0
    /\ UNCHANGED <<job, ctl, produced, loop, crashed, hist>>
    /\ UNCHANGED <<lmvars, ldvars, lock>>

\* _write: cbuf_read_to_fd failed with EAGAIN: left for the next poll cycle
WriteAgain(o) ==
    /\ Running /\ PollOut(io, o) /\ io.ops[o].handle_write = "write"
    /\ ~(io.eof[o] /\ Len(io.buf[o]) = 0)
    /\ io.fd[o] > 0
    /\ rc' = 0
    /\ UNCHANGED <<job, ctl, io, delivered, produced, loop, crashed, hist>>
    /\ UNCHANGED <<lmvars, ldvars, lock>>

\* _write: cbuf_read_to_fd failed with a hard error: the object is closed
WriteError(o) ==
    /\ Running /\ PollOut(io, o) /\ io.ops[o].handle_write = "write"
    /\ ~(io.eof[o] /\ Len(io.buf[o]) = 0)
    /\ io.fd[o] > 0
    /\ CloseOutcome(obj_close(io, o), o, FALSE, -1)
    /\ UNCHANGED <<job, ctl, delivered, produced, loop>>
    /\ UNCHANGED <<lmvars, ldvars, lock>>

\* variant: the dispatch table is swapped but the client is not attached
do_attach_ops_only(g, o) ==
    [g EXCEPT !.ops[o] = client_ops]

do_attach(g, o) ==
    LET g1 == [g EXCEPT !.ops[o] = client_ops]
    IN  IF g.otype[o] = "CLIENT_STDOUT"
        THEN io_client_attach(g1, o, TOUT, TIN)
        ELSE io_client_attach(g1, o, TERR, NIL)

\* _connecting_write: n header bytes written; the client is attached once
\* the header buffer is empty
ConnectingWrite(o) ==
    /\ Running /\ PollOut(io, o) /\ io.ops[o].handle_write = "connecting_write"
    /\ \E n \in 1..Len(io.buf[o]) :
          /\ delivered' = [delivered EXCEPT ![io.fd[o]] = @ \o Take(io.buf[o], n)]
          /\ LET g1 == [io EXCEPT !.buf[o] = Drop(@, n)]
                 w  == IF io.otype[o] = "CLIENT_STDOUT" THEN TOUT ELSE TERR
                 r  == IF io.otype[o] = "CLIENT_STDOUT" THEN TIN ELSE NIL
             IN  IF Len(g1.buf[o]) = 0
                 THEN /\ io' = do_attach(g1, o)
                      /\ hist' = HistAttach(hist, g1, o, w, r)
                 ELSE /\ io' = g1
                      /\ UNCHANGED hist
    /\ rc' = 0
    /\ UNCHANGED <<job, ctl, produced, loop, crashed>>
    /\ UNCHANGED <<lmvars, ldvars, lock>>

\* _connecting_write: the write failed with EAGAIN and goes on failing with
\* it: the handler repeats the write at once and does not return
ConnectingWriteAgain(o) ==
    /\ Running /\ PollOut(io, o) /\ io.ops[o].handle_write = "connecting_write"
    /\ loop' = "spinning"
    /\ UNCHANGED <<job, ctl, io, delivered, produced, crashed, rc, hist>>
    /\ UNCHANGED <<lmvars, ldvars, lock>>

\* _connecting_write: the write failed with a hard error
ConnectingWriteError(o) ==
    /\ Running /\ PollOut(io, o) /\ io.ops[o].handle_write = "connecting_write"
    /\ CloseOutcome(obj_close(io, o), o, FALSE, -1)
    /\ UNCHANGED <<job, ctl, delivered, produced, loop>>
    /\ UNCHANGED <<lmvars, ldvars, lock>>

\* io_handle_events leaves its loop when nothing is readable or writable
\* the byte counts of the warnings _handle_unprocessed_output logs, one for
\* stdout and one for stderr (0: no warning)
handle_unprocessed_output(g) ==
    [w \in {TOUT, TERR} |-> Len(g.buf[list_peek(g.readers[w])])]

LoopExit ==
    /\ Running
    /\ \A o \in Objs : ~PollIn(io, o) /\ ~PollOut(io, o)
    /\ loop' = "exited"
    /\ hist' = [hist EXCEPT !.unprocessed = handle_unprocessed_output(io)]
    /\ UNCHANGED <<job, ctl, io, delivered, produced, crashed, rc>>
    /\ UNCHANGED <<lmvars, ldvars, lock>>

(***************************************************************************)
(* The controlling thread: what io_spawn_handler does after it has started *)
(* the event loop thread (_io_prepare_clients, then _io_prepare_files).    *)
(* job.srun: the job has an srun to connect back to (and not noconnect);   *)
(* job.ofname, job.efname, job.ifname: the task has such a file.           *)
(***************************************************************************)
CtlSteps == <<"connect_out", "connect_err", "file_out", "file_err", "file_in", "done">>

CtlWanted(j, step) ==
    CASE step \in {"connect_out", "connect_err"} -> j.srun
      [] step = "file_out" -> j.ofname
      [] step = "file_err" -> j.efname
      [] step = "file_in"  -> j.ifname
      [] OTHER -> TRUE

\* the first step at or after position i that the job calls for
RECURSIVE CtlFrom(_, _)
CtlFrom(j, i) == IF CtlWanted(j, CtlSteps[i]) THEN CtlSteps[i] ELSE CtlFrom(j, i + 1)

CtlAfter(j, step) ==
    LET i == CHOOSE k \in 1..Len(CtlSteps) : CtlSteps[k] = step
    IN  CtlFrom(j, i + 1)

\* a connection to srun is opened and the stream header queued
io_add_connecting(g, type) ==
    LET o  == g.nobj + 1
        g1 == io_obj(g, FdOf(o), type)
        g2 == [g1 EXCEPT !.ops[o] = connecting_client_ops,
                         !.buf[o] = cbuf_write(<<>>, <<0>>, BufCap(type)).buf]
    IN  [g2 EXCEPT !.objs = Append(@, o)]

IoAddConnecting ==
    /\ ~crashed /\ ctl \in {"connect_out", "connect_err"}
    /\ io' = io_add_connecting(io, IF ctl = "connect_out" THEN "CLIENT_STDOUT"
                                                          ELSE "CLIENT_STDERR")
    /\ ctl' = CtlAfter(job, ctl)
    /\ UNCHANGED <<job, delivered, produced, loop, crashed, rc, hist>>
    /\ UNCHANGED <<lmvars, ldvars, lock>>

\* an output file is opened for the task and attached
OpenOutputFile ==
    /\ ~crashed /\ ctl \in {"file_out", "file_err"}
    /\ LET type == IF ctl = "file_out" THEN "CLIENT_STDOUT" ELSE "CLIENT_STDERR"
           o    == io.nobj + 1
           g1   == io_obj(io, FdOf(o), type)
           g2   == [g1 EXCEPT !.ops[o].readable = FALSE]
           w    == IF ctl = "file_out" THEN TOUT ELSE TERR
       IN  /\ io' = io_client_attach(g2, o, w, NIL)
           /\ hist' = HistAttach(hist, g2, o, w, NIL)
    /\ ctl' = CtlAfter(job, ctl)
    /\ UNCHANGED <<job, delivered, produced, loop, crashed, rc>>
    /\ UNCHANGED <<lmvars, ldvars, lock>>

\* an input file is opened for the task and attached
OpenStdinFile ==
    /\ ~crashed /\ ctl = "file_in"
    /\ LET o  == io.nobj + 1
           g1 == io_obj(io, FdOf(o), "CLIENT_STDIN")
           g2 == [g1 EXCEPT !.ops[o].writable = FALSE]
       IN  /\ io' = io_client_attach(g2, o, NIL, TIN)
           /\ hist' = HistAttach(hist, g2, o, NIL, TIN)
    /\ ctl' = CtlAfter(job, ctl)
    /\ UNCHANGED <<job, delivered, produced, loop, crashed, rc>>
    /\ UNCHANGED <<lmvars, ldvars, lock>>

(***************************************************************************)
(* The job after _io_prepare_tasks, with the event loop started            *)
(***************************************************************************)
EmptyGraph ==
    [nobj |-> 0,
     otype |-> [o \in Objs |-> "none"],
     fd |-> [o \in Objs |-> NOFD],
     ops |-> [o \in Objs |-> [readable |-> FALSE, writable |-> FALSE,
                              handle_read |-> "none", handle_write |-> "none"]],
     buf |-> [o \in Objs |-> <<>>],
     eof |-> [o \in Objs |-> FALSE],
     disc |-> [o \in Objs |-> FALSE],
     readers |-> [o \in Objs |-> <<>>],
     writers |-> [o \in Objs |-> <<>>],
     objs |-> <<>>]

io_prepare_tasks ==
    LET a  == io_obj(EmptyGraph, TaskInFd, "TASK_STDIN")
        a1 == [a EXCEPT !.objs = Append(@, TIN)]
        b  == io_obj(a1, TaskOutFd, "TASK_STDOUT")
        b1 == [b EXCEPT !.objs = Append(@, TOUT)]
        c  == io_client_attach(io_obj(b1, NOFD, "CLIENT_STDOUT"), GOUT, TOUT, NIL)
        d  == io_obj(c, TaskErrFd, "TASK_STDERR")
        d1 == [d EXCEPT !.objs = Append(@, TERR)]
    IN  io_client_attach(io_obj(d1, NOFD, "CLIENT_STDERR"), GERR, TERR, NIL)

\* the jobs considered: any choice of files without srun, at most one file
\* beside the connections to srun
JobConfigs ==
    {j \in [srun : BOOLEAN, ofname : BOOLEAN, efname : BOOLEAN, ifname : BOOLEAN] :
        j.srun => Cardinality({f \in {"ofname", "efname", "ifname"} : j[f]}) <= 1}

InitJob ==
    /\ ctl = CtlFrom(job, 1)
    /\ io = io_prepare_tasks
    /\ delivered = [f \in Fds |-> <<>>]
    /\ produced = [w \in {TIN, TOUT, TERR} |-> 0]
    /\ loop = "running"
    /\ crashed = FALSE
    /\ rc = 0
    /\ hist = HistInit

NextIO ==
    \/ \E o \in Objs : TaskReadData(o)
    \/ \E o \in Objs : TaskReadEof(o)
    \/ \E o \in Objs : TaskReadFail(o)
    \/ \E o \in Objs : ClientReadData(o)
    \/ \E o \in Objs : ClientReadEof(o)
    \/ \E o \in Objs : ClientReadFail(o)
    \/ \E o \in Objs : WriteClose(o)
    \/ \E o \in Objs : WriteData(o)
    \/ \E o \in Objs : WriteAgain(o)
    \/ \E o \in Objs : WriteError(o)
    \/ \E o \in Objs : ConnectingWrite(o)
    \/ \E o \in Objs : ConnectingWriteAgain(o)
    \/ \E o \in Objs : ConnectingWriteError(o)
    \/ LoopExit
    \/ IoAddConnecting
    \/ OpenOutputFile
    \/ OpenStdinFile

(***************************************************************************)
(* Layouts manager: the generic get/set API on one tree layout, for one    *)
(* key of type L_T_UINT16 that every entity holds, and calls that name one *)
(* entity.                                                                 *)
(***************************************************************************)
MaxCalls == 2        \* API calls made in a run

\* the range of a uint16_t
UINT16_MOD == 65536

LAYOUTS_API_SET == 1
LAYOUTS_API_GET == 2
LAYOUTS_SET_DIRECTION_NONE == 1
LAYOUTS_SET_DIRECTION_SAVE == 2
LAYOUTS_SET_DIRECTION_UP == 4
LAYOUTS_SET_DIRECTION_DOWN == 8
LAYOUTS_SET_OPERATION_SET == 16
LAYOUTS_SET_OPERATION_SUM == 32
LAYOUTS_SET_CONSOLIDATION_SUM == 256
LAYOUTS_SET_CONSOLIDATION_MEAN == 512
LAYOUTS_SET_CONSOLIDATION_SET == 1024
SLURM_SUCCESS == "SLURM_SUCCESS"
SLURM_ERROR == "SLURM_ERROR"

\* c & f for a one-bit flag f
HasFlag(c, f) == (c \div f) % 2 = 1

\* the entities, and the layouts considered: the parent of each entity,
\* 0 for the root
Entities == 1..5

Trees == {<<0, 1, 2, 2, 2>>, <<0, 1, 1, 2, 3>>}

\* the structure kinds of a layout: a tree, or a kind without relations
StructTypes == {"LAYOUT_STRUCT_TREE", "LAYOUT_STRUCT_NONE"}

\* the values the entities hold once the configuration is loaded
InitVals == {<<0, 0, 0, 0, 0>>, <<1, 2, 3, 5, 7>>, <<9, 9, 65535, 65535, 4>>}

\* the values callers pass
SetVals == {3, 10}

xtree_get_root(t) == CHOOSE e \in Entities : t[e] = 0

xtree_get_parent(t, e) == t[e]

\* the children of a node from node->start to node->end
children(t, e) == SelectSeq([i \in 1..Len(t) |-> i], LAMBDA k : t[k] = e)

(***************************************************************************)
(* Consolidation primitives on uint16_t                                    *)
(***************************************************************************)
consolidation_reset(val) == 0

consolidation_set(sum, toadd) == toadd

consolidation_substract(sum, toadd) == (sum + UINT16_MOD - toadd) % UINT16_MOD

consolidation_div(val, nb) == val \div nb

\* variant: the value is assigned instead of added
consolidation_add_assign(sum, toadd) == toadd

consolidation_add(sum, toadd) == (sum + toadd) % UINT16_MOD

(***************************************************************************)
(* Validation of the option mask for a layout of structure kind st         *)
(***************************************************************************)
\* variant: only the operation bits are validated
check_layout_consolidation_op(c, st, set_get) ==
    LET conso_op == HasFlag(c, LAYOUTS_SET_OPERATION_SUM)
                      \/ HasFlag(c, LAYOUTS_SET_OPERATION_SET)
    IN  IF (set_get = LAYOUTS_API_GET) = conso_op THEN SLURM_ERROR ELSE SLURM_SUCCESS

check_layout_consolidation(c, st, set_get) ==
    LET conso_op  == HasFlag(c, LAYOUTS_SET_OPERATION_SUM)
                       \/ HasFlag(c, LAYOUTS_SET_OPERATION_SET)
        flat      == HasFlag(c, LAYOUTS_SET_DIRECTION_NONE)
                       \/ HasFlag(c, LAYOUTS_SET_DIRECTION_SAVE)
        walk      == HasFlag(c, LAYOUTS_SET_DIRECTION_UP)
                       \/ HasFlag(c, LAYOUTS_SET_DIRECTION_DOWN)
        conso_set == HasFlag(c, LAYOUTS_SET_CONSOLIDATION_MEAN)
                       \/ HasFlag(c, LAYOUTS_SET_CONSOLIDATION_SUM)
                       \/ HasFlag(c, LAYOUTS_SET_CONSOLIDATION_SET)
    IN  IF set_get = LAYOUTS_API_GET /\ conso_op THEN SLURM_ERROR
        ELSE IF set_get = LAYOUTS_API_SET /\ ~conso_op THEN SLURM_ERROR
        ELSE IF set_get \notin {LAYOUTS_API_GET, LAYOUTS_API_SET} THEN SLURM_ERROR
        ELSE IF ~flat /\ ~walk THEN SLURM_ERROR
        ELSE IF st = "LAYOUT_STRUCT_TREE"
        THEN IF conso_set # (~flat) THEN SLURM_ERROR ELSE SLURM_SUCCESS
        ELSE IF ~flat \/ conso_set THEN SLURM_ERROR
        ELSE SLURM_SUCCESS

(***************************************************************************)
(* GET with a direction: the values after the walk; the value returned is  *)
(* the one the walk leaves on current_node                                 *)
(***************************************************************************)
RECURSIVE recursive_update_get(_, _, _, _)
RECURSIVE down_loop(_, _, _, _, _, _)

\* the loop over the children from other_node on; nb counts them
down_loop(t, current_node, kids, c, vals, nb) ==
    LET other_node == Head(kids)
        v1 == recursive_update_get(t, other_node, c, vals)
        v2 == [v1 EXCEPT ![current_node] = consolidation_add(@, v1[other_node])]
    IN  IF Len(kids) = 1
        THEN [vals |-> v2, nb |-> nb]
        ELSE down_loop(t, current_node, Tail(kids), c, v2, nb + 1)

recursive_update_get(t, current_node, c, vals) ==
    IF HasFlag(c, LAYOUTS_SET_DIRECTION_UP)
    THEN IF HasFlag(c, LAYOUTS_SET_CONSOLIDATION_SUM) THEN vals
         ELSE IF HasFlag(c, LAYOUTS_SET_CONSOLIDATION_MEAN) THEN vals
         ELSE IF HasFlag(c, LAYOUTS_SET_CONSOLIDATION_SET)
         THEN IF current_node = xtree_get_root(t) THEN vals
              ELSE LET other_node == xtree_get_parent(t, current_node)
                       v1 == recursive_update_get(t, other_node, c, vals)
                   IN  IF HasFlag(c, LAYOUTS_SET_OPERATION_SET)
                       THEN [v1 EXCEPT ![current_node] =
                                           consolidation_set(@, v1[other_node])]
                       ELSE v1
         ELSE vals
    ELSE IF HasFlag(c, LAYOUTS_SET_DIRECTION_DOWN)
    THEN IF HasFlag(c, LAYOUTS_SET_CONSOLIDATION_SET) THEN vals
         ELSE IF HasFlag(c, LAYOUTS_SET_CONSOLIDATION_SUM)
                   \/ HasFlag(c, LAYOUTS_SET_CONSOLIDATION_MEAN)
         THEN IF children(t, current_node) = <<>> THEN vals
              ELSE LET v0 == [vals EXCEPT ![current_node] = consolidation_reset(@)]
                       r  == down_loop(t, current_node, children(t, current_node),
                                       c, v0, 1)
                   IN  IF HasFlag(c, LAYOUTS_SET_CONSOLIDATION_MEAN)
                       THEN [r.vals EXCEPT ![current_node] =
                                               consolidation_div(@, r.nb)]
                       ELSE r.vals
         ELSE vals
    ELSE vals

(***************************************************************************)
(* SET with a direction: the entities _update_set adds after the named one *)
(* (each takes the named entity's value slot), and how the walk ends:      *)
(*   "returns"   - it returns;                                             *)
(*   "may_crash" - it went through _update_set_realloc, which reallocates  *)
(*                 copies of the caller's pointers: the memory written and *)
(*                 freed afterwards is the allocator's to decide;          *)
(*   "crashes"   - an unsupported combination leaves set_entities at 0 and *)
(*                 tree_nodes unset; the loop over i from nb_entities to   *)
(*                 mem_entities - 1 = 0 then runs off the entity array;    *)
(*   "hangs"     - the loop counting the children of a node with two or    *)
(*                 more children never advances other_node.                *)
(***************************************************************************)
\* direction UP, consolidation SUM: level by level up to the root
RECURSIVE update_set_up(_, _)
update_set_up(t, current_node) ==
    IF current_node = xtree_get_root(t) THEN <<>>
    ELSE <<xtree_get_parent(t, current_node)>>
             \o update_set_up(t, xtree_get_parent(t, current_node))

\* direction DOWN, consolidation SET: level by level down to the leaves
RECURSIVE update_set_down(_, _)
update_set_down(t, current_node) ==
    LET kids == children(t, current_node)
    IN  IF kids = <<>> THEN [added |-> <<>>, fate |-> "returns"]
        ELSE IF Len(kids) > 1 THEN [added |-> <<>>, fate |-> "hangs"]
        ELSE LET below == update_set_down(t, kids[1])
             IN  [added |-> <<kids[1]>> \o below.added,
                  fate |-> IF below.fate = "hangs" THEN "hangs" ELSE "may_crash"]

update_set(t, current_node, c) ==
    LET unsupported == [added |-> <<>>, fate |-> "crashes"]
    IN  IF HasFlag(c, LAYOUTS_SET_DIRECTION_UP)
             /\ (\/ HasFlag(c, LAYOUTS_SET_CONSOLIDATION_MEAN)
                 \/ HasFlag(c, LAYOUTS_SET_CONSOLIDATION_SET)
                 \/ HasFlag(c, LAYOUTS_SET_CONSOLIDATION_SUM))
        THEN IF HasFlag(c, LAYOUTS_SET_CONSOLIDATION_MEAN) THEN unsupported
             ELSE IF HasFlag(c, LAYOUTS_SET_CONSOLIDATION_SET) THEN unsupported
             ELSE [added |-> update_set_up(t, current_node), fate |-> "may_crash"]
        ELSE IF HasFlag(c, LAYOUTS_SET_DIRECTION_DOWN)
        THEN IF HasFlag(c, LAYOUTS_SET_CONSOLIDATION_MEAN) THEN unsupported
             ELSE IF HasFlag(c, LAYOUTS_SET_CONSOLIDATION_SUM) THEN unsupported
             ELSE IF HasFlag(c, LAYOUTS_SET_CONSOLIDATION_SET)
             THEN update_set_down(t, current_node)
             ELSE unsupported
        ELSE unsupported

RECURSIVE add_to_all(_, _, _)
add_to_all(vals, es, v) ==
    IF es = <<>> THEN vals
    ELSE add_to_all([vals EXCEPT ![Head(es)] = consolidation_add(@, v)], Tail(es), v)

RECURSIVE set_to_all(_, _, _)
set_to_all(vals, es, v) ==
    IF es = <<>> THEN vals
    ELSE set_to_all([vals EXCEPT ![Head(es)] = consolidation_set(@, v)], Tail(es), v)

(***************************************************************************)
(* layouts_api on the layout of structure kind st and tree t, for a vector *)
(* of one value v.  The registered layout type and key are LayoutType and  *)
(* KeyType; entities_names names one entity or none.                       *)
(* Result: the status, the entities' values, the caller's vector, and how  *)
(* the call ends (see above).                                              *)
(***************************************************************************)
slurm_mutex_lock(l) == "held"

slurm_mutex_unlock(l) == "free"

\* the mutex when layouts_api returns status r: the calls that fail leave
\* before the lock is taken, a GET takes it for a directed update only, a SET
\* that gets through takes it and gives it back
layouts_api_mutex(set_get, c, r, l) ==
    IF r # SLURM_SUCCESS THEN l
    ELSE IF set_get = LAYOUTS_API_GET
            /\ ~(HasFlag(c, LAYOUTS_SET_DIRECTION_DOWN) \/ HasFlag(c, LAYOUTS_SET_DIRECTION_UP))
    THEN l
    ELSE slurm_mutex_unlock(slurm_mutex_lock(l))

\* SET, before the lock is taken: the value slot built on the caller's
\* vector, from which the entity's current value is subtracted for operation
\* SET
layouts_api_input(c, v, old) ==
    IF HasFlag(c, LAYOUTS_SET_OPERATION_SET)
    THEN consolidation_substract(v, old)
    ELSE v

\* SET, between slurm_mutex_lock and slurm_mutex_unlock: the operation on the
\* named entity e, then the consolidation on the entities _update_set added
layouts_api_locked(c, e, added, values, vals) ==
    LET s1 == IF HasFlag(c, LAYOUTS_SET_OPERATION_SET)
              THEN [vals EXCEPT ![e] = consolidation_set(@, values)]
              ELSE vals
        s2 == IF HasFlag(c, LAYOUTS_SET_OPERATION_SUM)
              THEN [s1 EXCEPT ![e] = consolidation_add(@, values)]
              ELSE s1
        s3 == IF HasFlag(c, LAYOUTS_SET_CONSOLIDATION_SET)
              THEN set_to_all(s2, added, values)
              ELSE s2
    IN  IF HasFlag(c, LAYOUTS_SET_CONSOLIDATION_SUM)
        THEN add_to_all(s3, added, values)
        ELSE s3

(***************************************************************************)
(* SET with direction UP and consolidation SUM on several named entities.  *)
(* The working array holds, for each entry, the tree node and the value    *)
(* slot it shares with the named entity it was reached from.               *)
(***************************************************************************)
\* the for loop over the entries i .. i2 - 1 of one level: the parent of each
\* entry is appended, and the loop is left at the first entry that is the
\* root
RECURSIVE update_set_up_level(_, _, _, _)
update_set_up_level(t, work, i, i2) ==
    IF i = i2 THEN work
    ELSE IF work[i].node = xtree_get_root(t) THEN work
    ELSE update_set_up_level(t,
             Append(work, [node |-> xtree_get_parent(t, work[i].node),
                           slot |-> work[i].slot]),
             i + 1, i2)

\* the while loop over the levels
RECURSIVE update_set_up_walk(_, _, _, _)
update_set_up_walk(t, work, i1, i2) ==
    IF i1 = i2 THEN work
    ELSE LET w == update_set_up_level(t, work, i1, i2)
         IN  update_set_up_walk(t, w, i2, Len(w) + 1)

RECURSIVE consolidate_names(_, _, _, _, _)
consolidate_names(vals, work, values, i, set) ==
    IF i > Len(work) THEN vals
    ELSE consolidate_names(
             [vals EXCEPT ![work[i].node] =
                  IF set THEN consolidation_set(@, values[work[i].slot])
                  ELSE consolidation_add(@, values[work[i].slot])],
             work, values, i + 1, set)

\* layouts_api for a SET with direction UP and consolidation SUM that names
\* the registered layout and key and the entities names, vector holding one
\* value for each
layouts_api_names(names, t, c, vec, vals) ==
    LET nb     == Len(names)
        values == [i \in 1..nb |-> layouts_api_input(c, vec[i], vals[names[i]])]
        named  == [i \in 1..nb |-> [node |-> names[i], slot |-> i]]
        work   == update_set_up_walk(t, named, 1, nb + 1)
        s1 == IF HasFlag(c, LAYOUTS_SET_OPERATION_SET)
              THEN consolidate_names(vals, named, values, 1, TRUE)
              ELSE vals
        s2 == IF HasFlag(c, LAYOUTS_SET_OPERATION_SUM)
              THEN consolidate_names(s1, named, values, 1, FALSE)
              ELSE s1
    IN  [rc |-> SLURM_SUCCESS,
         vals |-> consolidate_names(s2, work, values, nb + 1, FALSE),
         vector |-> values, fate |-> "may_crash"]

LayoutType == "racks"

KeyType == "power"

layouts_api(set_get, layout_type, key_type, entities_names, st, t, c, v, vals) ==
    LET fail(fate) == [rc |-> SLURM_ERROR, vals |-> vals, vector |-> v, fate |-> fate]
    IN  \* no plugin of that name: cleanup frees type_dot_key before it is set
        IF layout_type # LayoutType THEN fail("may_crash")
        ELSE IF entities_names = <<>> THEN fail("returns")
        ELSE IF check_layout_consolidation(c, st, set_get) # SLURM_SUCCESS
        THEN fail("returns")
        \* entity_get_data finds no such key on the entity: *data reads NULL
        ELSE IF key_type # KeyType THEN fail("crashes")
        ELSE
        LET e    == entities_names[1]
            walk == HasFlag(c, LAYOUTS_SET_DIRECTION_DOWN)
                       \/ HasFlag(c, LAYOUTS_SET_DIRECTION_UP)
        IN  IF set_get = LAYOUTS_API_SET
            THEN LET values == layouts_api_input(c, v, vals[e])
                     u  == IF walk THEN update_set(t, e, c)
                           ELSE [added |-> <<>>, fate |-> "returns"]
                 IN  [rc |-> SLURM_SUCCESS,
                      vals |-> layouts_api_locked(c, e, u.added, values, vals),
                      vector |-> values, fate |-> u.fate]
            ELSE LET g == IF walk THEN recursive_update_get(t, e, c, vals) ELSE vals
                 IN  [rc |-> SLURM_SUCCESS, vals |-> g, vector |-> g[e],
                      fate |-> "returns"]

(***************************************************************************)
(* The API wrappers.  A call names the registered layout and key and one   *)
(* entity (NamedEntity); the calls of get_value and set_value may also     *)
(* name a layout or a key that is not registered, or no entity.            *)
(***************************************************************************)
CanCall == ~lcrashed /\ ~lhung /\ ncalls < MaxCalls /\ lock = "free"

NamedEntity ==
    {[layout_type |-> LayoutType, key_type |-> KeyType, names |-> <<e>>] :
         e \in Entities}

Arguments ==
    NamedEntity
    \cup {[layout_type |-> "nolayout", key_type |-> KeyType, names |-> <<1>>],
          [layout_type |-> LayoutType, key_type |-> "nokey", names |-> <<1>>],
          [layout_type |-> LayoutType, key_type |-> KeyType, names |-> <<>>]}

\* the call as the caller made it
Called(api, a, c, v) ==
    /\ call' = [api |-> api, ent |-> IF a.names = <<>> THEN 0 ELSE a.names[1],
                names |-> a.names,
                c |-> c, v |-> IF api \in {"get_value", "get_updated_value",
                                            "update_value_from"} THEN 0 ELSE v,
                layout_type |-> a.layout_type, key_type |-> a.key_type]
    /\ ncalls' = ncalls + 1

Returned(api, a, c, v, r) ==
    /\ edata' = r.vals
    /\ vector' = r.vector
    /\ lrc' = r.rc
    /\ lock' = layouts_api_mutex(IF api \in {"get_value", "get_updated_value"}
                                  THEN LAYOUTS_API_GET ELSE LAYOUTS_API_SET,
                                  c, r.rc, lock)
    /\ Called(api, a, c, v)
    /\ UNCHANGED <<lcrashed, lhung>>

\* the call ends the way r.fate tells
Outcome(api, a, c, v, r) ==
    \/ /\ r.fate \in {"returns", "may_crash"}
       /\ Returned(api, a, c, v, r)
    \/ /\ r.fate \in {"crashes", "may_crash"}
       /\ lcrashed' = TRUE
       /\ Called(api, a, c, v)
       /\ UNCHANGED <<edata, vector, lrc, lhung, lock>>
    \/ /\ r.fate = "hangs"
       /\ lhung' = TRUE
       /\ Called(api, a, c, v)
       /\ UNCHANGED <<edata, vector, lrc, lcrashed, lock>>

layouts_api_get_value ==
    /\ CanCall
    /\ \E a \in Arguments :
          Outcome("get_value", a, LAYOUTS_SET_DIRECTION_NONE, vector,
                  layouts_api(LAYOUTS_API_GET, a.layout_type, a.key_type, a.names,
                              struct_type, tree, LAYOUTS_SET_DIRECTION_NONE,
                              vector, edata))
    /\ UNCHANGED <<tree, struct_type, thr, edata0>>
    /\ UNCHANGED <<iovars, ldvars>>

layouts_api_set_value ==
    /\ CanCall
    /\ \E a \in Arguments, v \in SetVals,
          operation \in {LAYOUTS_SET_OPERATION_SET, LAYOUTS_SET_OPERATION_SUM} :
          LET c == operation + LAYOUTS_SET_DIRECTION_NONE
          IN  Outcome("set_value", a, c, v,
                      layouts_api(LAYOUTS_API_SET, a.layout_type, a.key_type,
                                  a.names, struct_type, tree, c, v, edata))
    /\ UNCHANGED <<tree, struct_type, thr, edata0>>
    /\ UNCHANGED <<iovars, ldvars>>

layouts_api_get_updated_value ==
    /\ CanCall
    /\ \E a \in NamedEntity,
          direction \in {LAYOUTS_SET_DIRECTION_UP, LAYOUTS_SET_DIRECTION_DOWN},
          consolidation \in {LAYOUTS_SET_CONSOLIDATION_MEAN,
                             LAYOUTS_SET_CONSOLIDATION_SET,
                             LAYOUTS_SET_CONSOLIDATION_SUM} :
          LET c == direction + consolidation
          IN  Outcome("get_updated_value", a, c, vector,
                      layouts_api(LAYOUTS_API_GET, a.layout_type, a.key_type,
                                  a.names, struct_type, tree, c, vector, edata))
    /\ UNCHANGED <<tree, struct_type, thr, edata0>>
    /\ UNCHANGED <<iovars, ldvars>>

layouts_api_propagate_value ==
    /\ CanCall
    /\ \E a \in NamedEntity, v \in SetVals,
          operation \in {LAYOUTS_SET_OPERATION_SET, LAYOUTS_SET_OPERATION_SUM},
          direction \in {LAYOUTS_SET_DIRECTION_UP, LAYOUTS_SET_DIRECTION_DOWN},
          consolidation \in {LAYOUTS_SET_CONSOLIDATION_MEAN,
                             LAYOUTS_SET_CONSOLIDATION_SET,
                             LAYOUTS_SET_CONSOLIDATION_SUM} :
          LET c == operation + direction + consolidation
          IN  Outcome("propagate_value", a, c, v,
                      layouts_api(LAYOUTS_API_SET, a.layout_type, a.key_type,
                                  a.names, struct_type, tree, c, v, edata))
    /\ UNCHANGED <<tree, struct_type, thr, edata0>>
    /\ UNCHANGED <<iovars, ldvars>>

\* the calls of layouts_api_propagate_value that name two entities, with
\* direction UP and consolidation SUM and the same value for both
\* (the root before and after a leaf, two leaves, a node and its child)
NamedEntities ==
    {[layout_type |-> LayoutType, key_type |-> KeyType, names |-> n] :
         n \in {<<1, 5>>, <<5, 1>>, <<4, 5>>, <<2, 4>>}}

layouts_api_propagate_values ==
    /\ CanCall
    /\ struct_type = "LAYOUT_STRUCT_TREE"
    /\ \E a \in NamedEntities, v \in SetVals,
          operation \in {LAYOUTS_SET_OPERATION_SET, LAYOUTS_SET_OPERATION_SUM} :
          LET c == operation + LAYOUTS_SET_DIRECTION_UP + LAYOUTS_SET_CONSOLIDATION_SUM
          IN  Outcome("propagate_values", a, c, v,
                      layouts_api_names(a.names, tree, c, <<v, v>>, edata))
    /\ UNCHANGED <<tree, struct_type, thr, edata0>>
    /\ UNCHANGED <<iovars, ldvars>>

\* the wrapper refuses a direction other than UP and DOWN; else the call is
\* a SET whose mask holds the direction and the consolidation only
layouts_api_update_value_from ==
    /\ CanCall
    /\ \E a \in NamedEntity,
          direction \in {LAYOUTS_SET_DIRECTION_NONE, LAYOUTS_SET_DIRECTION_UP,
                         LAYOUTS_SET_DIRECTION_DOWN},
          consolidation \in {LAYOUTS_SET_CONSOLIDATION_MEAN,
                             LAYOUTS_SET_CONSOLIDATION_SET,
                             LAYOUTS_SET_CONSOLIDATION_SUM} :
          LET c == direction + consolidation
          IN  IF direction \notin {LAYOUTS_SET_DIRECTION_UP,
                                   LAYOUTS_SET_DIRECTION_DOWN}
              THEN Returned("update_value_from", a, c, vector,
                            [rc |-> SLURM_ERROR, vals |-> edata, vector |-> vector])
              ELSE Outcome("update_value_from", a, c, vector,
                           layouts_api(LAYOUTS_API_SET, a.layout_type, a.key_type,
                                       a.names, struct_type, tree, c, vector, edata))
    /\ UNCHANGED <<tree, struct_type, thr, edata0>>
    /\ UNCHANGED <<iovars, ldvars>>

(***************************************************************************)
(* Concurrent callers.  Each caller makes one SET call on a tree layout:   *)
(* it runs layouts_api up to the lock (ApiEnter), then the section between *)
(* slurm_mutex_lock and slurm_mutex_unlock and the return (ApiLocked).     *)
(***************************************************************************)
Threads == {1, 2}

\* the entities the concurrent calls name: a leaf and its parent
SharedEntities == {2, 4}

Idle == [pc |-> "idle", ent |-> 0, c |-> 0, v |-> 0, values |-> 0,
         added |-> <<>>, fate |-> "returns"]

\* set_value, or propagate_value with direction UP and consolidation SUM
ConcurrentMasks ==
    {operation + LAYOUTS_SET_DIRECTION_NONE :
         operation \in {LAYOUTS_SET_OPERATION_SET, LAYOUTS_SET_OPERATION_SUM}}
    \cup {operation + LAYOUTS_SET_DIRECTION_UP + LAYOUTS_SET_CONSOLIDATION_SUM :
         operation \in {LAYOUTS_SET_OPERATION_SET, LAYOUTS_SET_OPERATION_SUM}}

ApiEnter(th) ==
    /\ ~lcrashed /\ thr[th].pc = "idle"
    /\ \E e \in SharedEntities, v \in SetVals, c \in ConcurrentMasks :
          LET u == IF HasFlag(c, LAYOUTS_SET_DIRECTION_UP) THEN update_set(tree, e, c)
                   ELSE [added |-> <<>>, fate |-> "returns"]
          IN  thr' = [thr EXCEPT ![th] =
                         [pc |-> "locking", ent |-> e, c |-> c, v |-> v,
                          values |-> layouts_api_input(c, v, edata[e]),
                          added |-> u.added, fate |-> u.fate]]
    /\ UNCHANGED <<tree, edata, vector, lrc, lcrashed, call, ncalls, struct_type,
                   lhung, edata0>>
    /\ UNCHANGED <<iovars, ldvars, lock>>

ApiLocked(th) ==
    /\ ~lcrashed /\ thr[th].pc = "locking" /\ lock = "free"
    /\ \/ /\ edata' = layouts_api_locked(thr[th].c, thr[th].ent, thr[th].added,
                                         thr[th].values, edata)
          /\ thr' = [thr EXCEPT ![th].pc = "done"]
          /\ lock' = slurm_mutex_unlock(slurm_mutex_lock(lock))
          /\ UNCHANGED lcrashed
       \/ /\ thr[th].fate = "may_crash"
          /\ lcrashed' = TRUE
          /\ UNCHANGED <<edata, thr, lock>>
    /\ UNCHANGED <<tree, vector, lrc, call, ncalls, struct_type, lhung, edata0>>
    /\ UNCHANGED <<iovars, ldvars>>

(***************************************************************************)
(* Loading the configuration: slurm_layouts_load_config with one tree      *)
(* layout plugin.  The registry maps a name to its entity; the plugin's    *)
(* tree is the sequence of its nodes in creation order, each with its      *)
(* entity and the index of its parent (0 for the root), so that the        *)
(* children of a node are in the order they were appended.                 *)
(***************************************************************************)
MaxLoads == 2        \* calls of slurm_layouts_load_config in a run

\* the names configurations use; "X" is never declared
Names == {"R", "A", "B", "C", "X"}

\* the entity types the plugin allows (spec->etypes)
etypes == {"Rack", "Center"}

NoEntity == [present |-> FALSE, type |-> "NULL", enclosed |-> <<>>, attr |-> 0]

\* the manager after slurm_layouts_init: the plugin's layout registered,
\* no entity
EmptyMgr == [entities |-> [n \in Names |-> NoEntity],
             layouts  |-> 1,
             base     |-> 0,
             tree     |-> <<>>]

xhash_count(entities) == Cardinality({n \in Names : entities[n].present})

\* stage 0: an entity per configured node, added to the registry and to the
\* base layout; fail is the node at which xhash_add fails (0: none)
RECURSIVE load_nodes(_, _, _, _)
load_nodes(m, nodes, inx, fail) ==
    IF inx > Len(nodes) THEN [mgr |-> m, rc |-> SLURM_SUCCESS]
    ELSE IF inx = fail THEN [mgr |-> m, rc |-> SLURM_ERROR]
    ELSE load_nodes([m EXCEPT !.entities[nodes[inx]] =
                                  [present |-> TRUE, type |-> "NULL",
                                   enclosed |-> <<>>, attr |-> 0],
                              !.base = @ + 1],
                    nodes, inx + 1, fail)

\* the Enclosed directive of an Entity line is kept with the entity,
\* comma-joined to what it already has
layouts_parse_relations(e, line) ==
    [e EXCEPT !.enclosed = @ \o line.enclosed]

\* the attribute of an Entity line replaces the entity's, when the line has one
layouts_load_automerge(e, line) ==
    IF line.attr = 0 THEN e ELSE [e EXCEPT !.attr = line.attr]

\* stage 1, the loop over the Entity lines.  Result: the registry, and
\* whether strcmp was handed the NULL type of a node entity.
RECURSIVE read_entities(_, _, _)
read_entities(entities, lines, i) ==
    IF i > Len(lines) THEN [entities |-> entities, null |-> FALSE]
    ELSE
    LET line   == lines[i]
        e      == entities[line.name]
        skip   == read_entities(entities, lines, i + 1)
        merged(ent) == read_entities(
                           [entities EXCEPT ![line.name] =
                               layouts_load_automerge(
                                   layouts_parse_relations(ent, line), line)],
                           lines, i + 1)
    IN  IF ~e.present
        THEN IF line.type = "none" THEN skip
             ELSE IF line.type \notin etypes THEN skip
             ELSE merged([present |-> TRUE, type |-> line.type,
                          enclosed |-> <<>>, attr |-> 0])
        ELSE IF line.type # "none"
        THEN IF line.type \notin etypes THEN skip
             ELSE IF e.type = "NULL" THEN [entities |-> entities, null |-> TRUE]
             \* !strcmp(e_type, e->type): the types are equal
             ELSE IF line.type = e.type THEN skip
             ELSE merged(e)
        ELSE merged(e)

\* after stage 1: the Root entity becomes the root of the plugin's tree
layouts_read_config_post(m, root) ==
    IF root = "none" THEN [mgr |-> m, rc |-> SLURM_ERROR]
    ELSE IF ~m.entities[root].present THEN [mgr |-> m, rc |-> SLURM_ERROR]
    ELSE [mgr |-> [m EXCEPT !.tree = Append(@, [entity |-> root, parent |-> 0])],
          rc |-> SLURM_SUCCESS]

layouts_read_config(m, cf) ==
    LET r  == read_entities(m.entities, cf.lines, 1)
        m1 == [m EXCEPT !.entities = r.entities]
        p  == layouts_read_config_post(m1, cf.root)
    IN  IF cf.lines = <<>> THEN [mgr |-> m, rc |-> SLURM_ERROR, null |-> FALSE]
        ELSE IF r.null THEN [mgr |-> m, rc |-> SLURM_ERROR, null |-> TRUE]
        ELSE IF p.rc # SLURM_SUCCESS THEN [mgr |-> p.mgr, rc |-> SLURM_ERROR, null |-> FALSE]
        ELSE IF cf.veto THEN [mgr |-> p.mgr, rc |-> SLURM_ERROR, null |-> FALSE]
        ELSE [mgr |-> p.mgr, rc |-> SLURM_SUCCESS, null |-> FALSE]

\* the nodes of tree whose parent is node, in the order they were appended
tree_children(tr, node) ==
    SelectSeq([k \in 1..Len(tr) |-> k], LAMBDA k : tr[k].parent = node)

RECURSIVE add_enclosed(_, _, _)
add_enclosed(m, node, names) ==
    IF names = <<>> THEN m
    ELSE IF ~m.entities[Head(names)].present
    THEN add_enclosed(m, node, Tail(names))
    ELSE add_enclosed([m EXCEPT !.tree = Append(@, [entity |-> Head(names),
                                                     parent |-> node])],
                      node, Tail(names))

\* variant: the enclosed entities are attached in reverse order
layouts_build_xtree_walk_reversed(m, node) ==
    LET e == m.tree[node].entity
        rev(q) == [k \in 1..Len(q) |-> q[Len(q) + 1 - k]]
    IN  add_enclosed([m EXCEPT !.entities[e].enclosed = <<>>], node,
                     rev(m.entities[e].enclosed))

\* variant: the Enclosed list stays on the entity when the callback runs on
\* the root node
layouts_build_xtree_walk_rootkept(m, node) ==
    LET e == m.tree[node].entity
    IN  add_enclosed(IF node = 1 THEN m
                     ELSE [m EXCEPT !.entities[e].enclosed = <<>>], node,
                     m.entities[e].enclosed)

\* the callback run on a node: the entity's stashed Enclosed list is taken
\* off the entity and each name that resolves is appended as a child
layouts_build_xtree_walk(m, node) ==
    LET e == m.tree[node].entity
    IN  add_enclosed([m EXCEPT !.entities[e].enclosed = <<>>], node,
                     m.entities[e].enclosed)

\* stage 2: the depth-first walk from the root, todo being the nodes still to
\* visit; a node's new children are visited before its siblings
RECURSIVE xtree_walk(_, _)
xtree_walk(m, todo) ==
    IF todo = <<>> THEN m
    ELSE LET m1 == layouts_build_xtree_walk(m, Head(todo))
         IN  xtree_walk(m1, tree_children(m1.tree, Head(todo)) \o Tail(todo))

layouts_build_relations(m) ==
    IF m.tree = <<>> THEN m ELSE xtree_walk(m, <<1>>)

\* the load after the test of the registry: stage 0, the base layout, stage
\* 1, and stage 2, which runs whatever stage 1 returned
load_stages(m, cf) ==
    LET s0 == load_nodes(m, cf.nodes, 1, cf.fail)
        m0 == [s0.mgr EXCEPT !.layouts = @ + 1]
        s1 == layouts_read_config(m0, cf)
    IN  IF s0.rc # SLURM_SUCCESS
        THEN [mgr |-> s0.mgr, rc |-> SLURM_ERROR, null |-> FALSE]
        ELSE [mgr |-> layouts_build_relations(s1.mgr), rc |-> s1.rc, null |-> s1.null]

\* variant: the load runs whatever the registry holds
slurm_layouts_load_config_again(m, cf) ==
    load_stages(m, cf)

slurm_layouts_load_config(m, cf) ==
    IF xhash_count(m.entities) # 0
    THEN [mgr |-> m, rc |-> SLURM_SUCCESS, null |-> FALSE]
    ELSE load_stages(m, cf)

\* the configurations considered: nodes B and C; an Entity line for R and one
\* for A, and possibly a later line naming A or B again; a Root directive
Line(name, type, enclosed, attr) ==
    [name |-> name, type |-> type, enclosed |-> enclosed, attr |-> attr]

Configs ==
    {[nodes |-> <<"B", "C">>, fail |-> f, lines |-> <<lr, la>> \o extra,
      root |-> rt, veto |-> vt] :
        f \in 0..2,
        lr \in {Line("R", "Rack", enc, 1) :
                    enc \in {<<"A", "B">>, <<"B", "A">>, <<"A", "X", "B">>}},
        la \in {Line("A", t, enc, 2) :
                    t \in {"Rack", "Bogus", "none"}, enc \in {<<"C">>, <<>>}},
        extra \in {<<>>} \cup {<<Line(n, t, <<>>, 9)>> :
                    n \in {"A", "B"}, t \in {"Rack", "Center", "none"}},
        rt \in {"R", "none", "X"},
        vt \in BOOLEAN}

\* the manager's pointers after slurm_layouts_init
LivePtrs == [plugins |-> "live", layouts_desc |-> "live", layouts |-> "live",
             entities |-> "live", keydefs |-> "live"]

Registries == {"layouts", "entities", "keydefs"}

\* the mutex when slurm_layouts_load_config returns: it is taken first and
\* given back before the early return and at the end, which every other path
\* reaches
load_config_mutex_held(m, l) ==
    IF xhash_count(m.entities) # 0
    THEN slurm_mutex_lock(l)
    ELSE slurm_mutex_unlock(slurm_mutex_lock(l))

load_config_mutex(m, l) ==
    IF xhash_count(m.entities) # 0
    THEN slurm_mutex_unlock(slurm_mutex_lock(l))
    ELSE slurm_mutex_unlock(slurm_mutex_lock(l))

LoadConfig ==
    /\ ~ldcrashed /\ nloads < MaxLoads
    /\ ptrs = LivePtrs /\ lock = "free"
    /\ LET r == slurm_layouts_load_config(mgr, conf)
       IN  \/ /\ ~r.null
              /\ mgr' = r.mgr
              /\ ldrc' = r.rc
              /\ lock' = load_config_mutex(mgr, lock)
              /\ UNCHANGED ldcrashed
           \/ /\ r.null
              /\ ldcrashed' = TRUE
              /\ UNCHANGED <<mgr, ldrc, lock>>
    /\ nloads' = nloads + 1
    /\ UNCHANGED <<conf, ptrs, finrc, refreed, nfinis, plugins, keydefs, resolved,
                   released>>
    /\ UNCHANGED <<iovars, lmvars>>

(***************************************************************************)
(* Layout names.  A string is the sequence of its parts, the separators    *)
(* "/" and "." being parts, so that strcmp is equality of sequences.       *)
(***************************************************************************)
\* the tokens of the Layouts directive considered: `type` and `type/name`
LayoutsDirectives ==
    {<<LayoutType>>, <<LayoutType, "/", "default">>, <<LayoutType, "/", "site">>}

\* one token of the directive cut at its "/"
layouts_mgr_parse_global_conf(token) ==
    [whole_name |-> token,
     type       |-> <<token[1]>>,
     name       |-> IF Len(token) > 1 THEN <<token[3]>> ELSE <<"default">>]

normalize_keydef_key(key, plugtype) == plugtype \o <<".">> \o key

\* the plugin slurm_layouts_init registers for a descriptor: it is named
\* after the whole token, its layout after the type and the name
init_layouts_walk_helper(spec) ==
    [name |-> spec.whole_name, layout |-> [type |-> spec.type, name |-> spec.name]]

slurm_layouts_init_keydef(plugin) ==
    {normalize_keydef_key(<<KeyType>>, plugin.layout.type)}

NoPlugin == [name |-> <<>>, layout |-> [type |-> <<>>, name |-> <<>>]]

layouts_get_plugin(plgs, type) ==
    LET found == SelectSeq(plgs, LAMBDA p : p.name = type)
    IN  IF found = <<>> THEN NoPlugin ELSE found[1]

\* the start of layouts_api: the plugin of layout_type, and the key
\* layout_type.key_type under which the entities' values are looked up
LayoutsApiResolve ==
    /\ ~ldcrashed
    /\ \E layout_type \in LayoutsDirectives \cup {<<"nolayout">>} :
          LET plugin == layouts_get_plugin(plugins, layout_type)
              type_dot_key == layout_type \o <<".">> \o <<KeyType>>
          IN  resolved' = [layout_type |-> layout_type,
                           plugin |-> plugin,
                           key |-> plugin # NoPlugin /\ type_dot_key \in keydefs]
    /\ UNCHANGED <<mgr, conf, ldrc, ldcrashed, nloads, ptrs, finrc, refreed, nfinis,
                   plugins, keydefs, released, lock>>
    /\ UNCHANGED <<iovars, lmvars>>

MaxFinis == 2        \* calls of slurm_layouts_fini in a run

\* FREE_NULL_LIST and xfree followed by the assignment of NULL
free_null(p) == "NULL"

\* xhash_free(table): table is passed by value, so the manager's pointer
\* keeps pointing to the released table
xhash_free(p) == IF p = "NULL" THEN "NULL" ELSE "released"

layouts_mgr_free(p) ==
    [p EXCEPT !.layouts_desc = free_null(@),
              !.layouts  = xhash_free(@),
              !.entities = xhash_free(@),
              !.keydefs  = xhash_free(@)]

\* the objects a teardown releases: the layout of the plugin, the base
\* layout, the entities, the key definitions
TeardownObjects ==
    {<<"layout">>, <<"base">>, <<"keydef">>} \cup {<<"entity", n>> : n \in Names}

NoneReleased == [o \in TeardownObjects |-> 0]

\* _layout_plugins_destroy on each plugin: layout_free and xfree of its layout
layout_plugins_destroy(plgs) ==
    [NoneReleased EXCEPT ![<<"layout">>] = Len(plgs)]

\* xhash_free of the three registries: the free function each was created
\* with (_layout_free, _entity_free, _layouts_keydef_free) is run on every
\* item it holds.  The layouts registry holds the layouts of the plugins,
\* added by slurm_layouts_init, and the base layout once a load added it.
xhash_free_items(plgs, m, kd) ==
    [o \in TeardownObjects |->
        CASE o = <<"layout">> -> IF m.layouts >= Len(plgs) THEN Len(plgs) ELSE 0
          [] o = <<"base">>   -> IF m.layouts > Len(plgs) THEN 1 ELSE 0
          [] o = <<"keydef">> -> Cardinality(kd)
          [] OTHER            -> IF m.entities[o[2]].present THEN 1 ELSE 0]

\* the mutex when slurm_layouts_fini returns
fini_mutex(l) == slurm_mutex_unlock(slurm_mutex_lock(l))

\* the whole of slurm_layouts_fini.  Releasing a table or an object a second
\* time is undefined: the call either gets through it or the process dies in
\* it.
slurm_layouts_fini ==
    /\ ~ldcrashed /\ nfinis < MaxFinis /\ lock = "free"
    /\ nfinis' = nfinis + 1
    /\ refreed' = {r \in Registries : ptrs[r] = "released"}
    /\ LET rel == [o \in TeardownObjects |->
                      layout_plugins_destroy(plugins)[o]
                          + xhash_free_items(plugins, mgr, keydefs)[o]]
       IN  \/ /\ ptrs' = layouts_mgr_free([ptrs EXCEPT !.plugins = free_null(@)])
              /\ mgr' = [entities |-> [n \in Names |-> NoEntity], layouts |-> 0,
                         base |-> 0, tree |-> <<>>]
              /\ plugins' = <<>>
              /\ keydefs' = {}
              /\ finrc' = SLURM_SUCCESS
              /\ released' = rel
              /\ lock' = fini_mutex(lock)
              /\ UNCHANGED ldcrashed
           \/ /\ refreed' # {} \/ \E o \in TeardownObjects : rel[o] > 1
              /\ ldcrashed' = TRUE
              /\ UNCHANGED <<ptrs, mgr, finrc, plugins, keydefs, released, lock>>
    /\ UNCHANGED <<conf, ldrc, nloads, resolved>>
    /\ UNCHANGED <<iovars, lmvars>>

\* the mutex when slurm_layouts_init returns: a manager that has its plugins
\* returns before the lock is taken
init_mutex(p, l) ==
    IF p.plugins # "NULL" THEN l ELSE slurm_mutex_unlock(slurm_mutex_lock(l))

\* slurm_layouts_init; loads tells whether the plugin of the configured
\* layout can be loaded.  When it cannot, no plugin has been registered, so
\* the loop over the registered plugins destroys none.
slurm_layouts_init ==
    /\ ~ldcrashed /\ lock = "free"
    /\ \E loads \in BOOLEAN :
          IF ptrs.plugins # "NULL"
          THEN UNCHANGED <<ptrs, mgr, plugins, keydefs, released>>
          ELSE LET plugin == init_layouts_walk_helper(
                                 layouts_mgr_parse_global_conf(conf.layouts))
               IN  /\ mgr' = [EmptyMgr EXCEPT !.layouts = IF loads THEN 1 ELSE 0]
                   /\ ptrs' = [LivePtrs EXCEPT !.plugins =
                                   IF loads THEN "live" ELSE free_null(@)]
                   /\ plugins' = IF loads THEN <<plugin>> ELSE <<>>
                   /\ keydefs' = IF loads THEN slurm_layouts_init_keydef(plugin) ELSE {}
                   /\ released' = layout_plugins_destroy(<<>>)
    /\ lock' = init_mutex(ptrs, lock)
    /\ UNCHANGED <<conf, ldrc, ldcrashed, nloads, finrc, refreed, nfinis, resolved>>
    /\ UNCHANGED <<iovars, lmvars>>

(***************************************************************************)
(* Specifications                                                          *)
(***************************************************************************)
\* the manager initialised, before any load, with configuration cf
InitLoad(cfs, directives) ==
    /\ \E cf \in cfs, token \in directives :
          LET plugin == init_layouts_walk_helper(layouts_mgr_parse_global_conf(token))
          IN  /\ conf = [nodes |-> cf.nodes, fail |-> cf.fail, lines |-> cf.lines,
                         root |-> cf.root, veto |-> cf.veto, layouts |-> token]
              /\ plugins = <<plugin>>
              /\ keydefs = slurm_layouts_init_keydef(plugin)
    /\ lock = "free"
    /\ released = NoneReleased
    /\ resolved = [layout_type |-> <<>>, plugin |-> NoPlugin, key |-> FALSE]
    /\ mgr = EmptyMgr
    /\ ldrc = SLURM_SUCCESS
    /\ ldcrashed = FALSE
    /\ nloads = 0
    /\ ptrs = LivePtrs
    /\ finrc = SLURM_SUCCESS
    /\ refreed = {}
    /\ nfinis = 0

OneConfig ==
    {[nodes |-> <<"B", "C">>, fail |-> 0,
      lines |-> <<Line("R", "Rack", <<"A", "B">>, 1), Line("A", "Rack", <<"C">>, 2)>>,
      root |-> "R", veto |-> FALSE]}

InitLayouts(kinds, trees, vals) ==
    /\ InitLoad(OneConfig, {<<LayoutType>>})
    /\ struct_type \in kinds
    /\ tree \in trees
    /\ edata \in vals
    /\ vector = 0
    /\ lrc = SLURM_SUCCESS
    /\ lcrashed = FALSE
    /\ lhung = FALSE
    /\ thr = [th \in Threads |-> Idle]
    /\ edata0 = edata
    /\ call = [api |-> "none", ent |-> 0, names |-> <<>>, c |-> 0, v |-> 0,
               layout_type |-> LayoutType, key_type |-> KeyType]
    /\ ncalls = 0

\* the I/O engine of a job, from the start of its event loop
InitIO ==
    /\ job \in JobConfigs
    /\ InitJob
    /\ InitLayouts({"LAYOUT_STRUCT_TREE"}, {<<0, 1, 2, 2, 2>>}, {<<0, 0, 0, 0, 0>>})

SpecIO == InitIO /\ [][NextIO]_vars

\* calls of the layouts API on a loaded layout: a tree layout, or a layout
\* without relations (whose entities all hang off the manager)
InitLM ==
    /\ job = [srun |-> FALSE, ofname |-> FALSE, efname |-> FALSE, ifname |-> FALSE]
    /\ InitJob
    /\ \/ InitLayouts({"LAYOUT_STRUCT_TREE"}, Trees, InitVals)
       \/ InitLayouts(StructTypes \ {"LAYOUT_STRUCT_TREE"}, {<<0, 1, 1, 1, 1>>},
                      {<<1, 2, 3, 5, 7>>})

NextLM ==
    \/ layouts_api_get_value
    \/ layouts_api_set_value
    \/ layouts_api_get_updated_value
    \/ layouts_api_propagate_value
    \/ layouts_api_update_value_from

SpecLM == InitLM /\ [][NextLM]_vars

\* calls that name several entities
NextNames == layouts_api_propagate_values

SpecNames == InitLM /\ [][NextNames]_vars

\* loads of the configuration
InitLD ==
    /\ job = [srun |-> FALSE, ofname |-> FALSE, efname |-> FALSE, ifname |-> FALSE]
    /\ InitJob
    /\ struct_type = "LAYOUT_STRUCT_TREE"
    /\ tree = <<0, 1, 2, 2, 2>>
    /\ edata = <<0, 0, 0, 0, 0>>
    /\ vector = 0
    /\ lrc = SLURM_SUCCESS
    /\ lcrashed = FALSE
    /\ lhung = FALSE
    /\ thr = [th \in Threads |-> Idle]
    /\ edata0 = edata
    /\ call = [api |-> "none", ent |-> 0, names |-> <<>>, c |-> 0, v |-> 0,
               layout_type |-> LayoutType, key_type |-> KeyType]
    /\ ncalls = 0
    /\ InitLoad(Configs, LayoutsDirectives)

NextLD == LoadConfig \/ slurm_layouts_fini \/ LayoutsApiResolve

SpecLD == InitLD /\ [][NextLD]_vars

\* configurations whose Enclosed directives are cyclic (R or A enclosing
\* itself, A enclosing its parent R) or name an entity under several parents
\* (A or B under both R and A, A twice under R)
CyclicConfigs ==
    {[nodes |-> <<"B", "C">>, fail |-> 0,
      lines |-> <<Line("R", "Rack", er, 1), Line("A", "Rack", ea, 2)>>,
      root |-> "R", veto |-> vt] :
        er \in {<<"A", "B">>, <<"R", "A">>, <<"A", "A">>},
        ea \in {<<"R">>, <<"A">>, <<"B">>, <<"A", "R">>},
        vt \in BOOLEAN}

\* the life of the manager: initialisation, loads and teardowns, for the
\* configurations R(A, B), A(C) with any failing node, Root and plugin
\* verdict, and for the cyclic ones
LifeConfigs ==
    {cf \in Configs : /\ Len(cf.lines) = 2
                      /\ cf.lines[1].enclosed = <<"A", "B">>
                      /\ cf.lines[2] = Line("A", "Rack", <<"C">>, 2)}
    \cup CyclicConfigs

InitLife ==
    /\ job = [srun |-> FALSE, ofname |-> FALSE, efname |-> FALSE, ifname |-> FALSE]
    /\ InitJob
    /\ struct_type = "LAYOUT_STRUCT_TREE"
    /\ tree = <<0, 1, 2, 2, 2>>
    /\ edata = <<0, 0, 0, 0, 0>>
    /\ vector = 0
    /\ lrc = SLURM_SUCCESS
    /\ lcrashed = FALSE
    /\ lhung = FALSE
    /\ thr = [th \in Threads |-> Idle]
    /\ edata0 = edata
    /\ call = [api |-> "none", ent |-> 0, names |-> <<>>, c |-> 0, v |-> 0,
               layout_type |-> LayoutType, key_type |-> KeyType]
    /\ ncalls = 0
    /\ InitLoad(LifeConfigs, LayoutsDirectives)

NextLife == slurm_layouts_init \/ LoadConfig \/ slurm_layouts_fini

SpecLife == InitLife /\ [][NextLife]_vars

\* concurrent SET calls on a loaded tree layout
InitConcurrent ==
    /\ job = [srun |-> FALSE, ofname |-> FALSE, efname |-> FALSE, ifname |-> FALSE]
    /\ InitJob
    /\ InitLayouts({"LAYOUT_STRUCT_TREE"}, Trees, InitVals)

NextConcurrent ==
    \/ \E th \in Threads : ApiEnter(th)
    \/ \E th \in Threads : ApiLocked(th)

SpecConcurrent == InitConcurrent /\ [][NextConcurrent]_vars

(***************************************************************************)
(* Properties of the I/O engine                                            *)
(***************************************************************************)
\* the task stream a stdout/stderr client of graph g belongs to
StreamOf(g, c) == IF g.otype[c] = "CLIENT_STDOUT" THEN TOUT ELSE TERR

\* this step closes the connected client o
CloseStep(o) == isa_client(io, o) /\ io.fd[o] > 0 /\ ~io.disc[o] /\ io'.fd[o] = NOFD

\* this step attaches the new stdout/stderr client c: a connecting client
\* that has sent its header, or a file just opened
AttachStep(c) ==
    \/ /\ io.ops[c].handle_write = "connecting_write"
       /\ io'.ops[c].handle_write = "write"
    \/ /\ io'.nobj = io.nobj + 1 /\ c = io'.nobj
       /\ io'.otype[c] \in {"CLIENT_STDOUT", "CLIENT_STDERR"}
       /\ io'.ops[c].handle_write = "write"

\* the stream's task object has read end-of-file
TaskAtEof(w) == io.fd[w] = NOFD

\* C1: after a reader is disconnected by a read EOF and a new client of the
\* stream is attached, the bytes written to the new client's descriptor,
\* followed by the bytes still buffered for it, are the bytes buffered at
\* the attach followed by the bytes the task produced since, in order,
\* provided the buffer never dropped
C1_GhostBytesHandedOver ==
    \A r \in hist.reattach :
        r.old \notin hist.dropped =>
            Data(delivered[r.fd]) \o io.buf[r.old]
                = r.pre \o Bytes(r.base, produced[r.w])

C1_Witness ==
    \E r \in hist.reattach :
        /\ r.old \notin hist.dropped
        /\ Len(r.pre) > 0
        /\ produced[r.w] > r.base
        /\ delivered[r.fd] = r.pre \o Bytes(r.base, produced[r.w])

C3_ClosedMeansIdle ==
    /\ (\A o \in Range(io.objs) : io.fd[o] = NOFD) =>
           \A o \in Objs : ~PollIn(io, o) /\ ~PollOut(io, o)
    /\ TaskAtEof(TOUT) => \A r \in Range(io.readers[TOUT]) : io.eof[r]

\* C4: no buffer ever holds more than its capacity, ghosts included, and a
\* task read that finds a reader's buffer full returns 0 and does not end
\* the process or the loop
C4_Backpressure ==
    /\ [](\A o \in Objs :
             Len(io.buf[o]) <= IF io.otype[o] = "TASK_STDIN" THEN TaskInBufMax
                               ELSE ClientBufMax)
    /\ [][(\E w \in {TOUT, TERR} : produced'[w] > produced[w]) =>
             rc' = 0 /\ ~crashed' /\ loop' = loop]_vars

C4_Witness ==
    \E o \in hist.dropped :
        /\ io.disc[o] /\ Len(io.buf[o]) = ClientBufMax
        /\ rc = 0 /\ Running

\* C5: an attach to a writer whose first reader is a ghost gives the ghost
\* the new client's descriptor and dispatch table, clears its disconnected
\* flag, keeps its buffer and EOF flag, takes the new client off the job's
\* object list and leaves the writer's readers list as it was
C5_ResurrectInPlace ==
    [][\A c \in Objs :
          LET w     == StreamOf(io', c)
              first == Head(io.readers[w])
          IN  (AttachStep(c) /\ io.disc[first]) =>
                  /\ io'.fd[first] = io'.fd[c]
                  /\ io'.ops[first] = io'.ops[c]
                  /\ ~io'.disc[first]
                  /\ io'.buf[first] = io.buf[first]
                  /\ io'.eof[first] = io.eof[first]
                  /\ ~InSeq(io'.objs, c)
                  /\ io'.readers[w] = io.readers[w]]_vars

C5_Witness ==
    \E c \in Objs :
        /\ io.otype[c] \in {"CLIENT_STDOUT", "CLIENT_STDERR"}
        /\ io.ops[c].handle_write = "write"
        /\ ~InSeq(io.objs, c) /\ ~InSeq(io.readers[StreamOf(io, c)], c)
        /\ LET first == Head(io.readers[StreamOf(io, c)])
           IN  /\ io.fd[first] = io.fd[c] /\ ~io.disc[first]
               /\ Len(io.buf[first]) > 0

\* C6: a client appended to a writer's readers list has its EOF flag set
\* exactly when the writer, the producing task stream, has read end-of-file
C6_AppendedEofIffTaskEof ==
    [][\A c \in Objs :
          LET w == StreamOf(io', c)
          IN  (InSeq(io'.readers[w], c) /\ ~InSeq(io.readers[w], c)) =>
                  (io'.eof[c] <=> TaskAtEof(w))]_vars

\* C7: a client that is closed is flagged disconnected with an invalid
\* descriptor, and it is taken off each writer's readers list and each
\* reader's writers list exactly when that list has more than one entry
C7_ClosedClientPruned ==
    [][\A o \in Objs :
          CloseStep(o) =>
              /\ io'.disc[o] /\ io'.fd[o] = NOFD
              /\ \A w \in Range(io.writers[o]) :
                    InSeq(io'.readers[w], o) <=> Len(io.readers[w]) <= 1
              /\ \A r \in Range(io.readers[o]) :
                    InSeq(io'.writers[r], o) <=> Len(io.writers[r]) <= 1]_vars

(***************************************************************************)
(* Properties of the layouts API                                           *)
(***************************************************************************)
\* this step is a call of the named wrapper that names the registered layout
\* and key and an entity
CallStep(api) ==
    /\ ncalls' = ncalls + 1
    /\ call'.api = api
    /\ call'.layout_type = LayoutType /\ call'.key_type = KeyType /\ call'.ent # 0

IsTree == struct_type = "LAYOUT_STRUCT_TREE"

RECURSIVE SumSeq(_)
SumSeq(q) == IF q = <<>> THEN 0 ELSE Head(q) + SumSeq(Tail(q))

\* the consolidated value of entity e over values vals: a leaf's own value,
\* else the sum of the children's consolidated values, divided by their
\* number when mean is asked for (uint16_t arithmetic)
RECURSIVE Consolidated(_, _, _, _)
Consolidated(t, e, vals, mean) ==
    LET kids == children(t, e)
        sum  == SumSeq([i \in 1..Len(kids) |-> Consolidated(t, kids[i], vals, mean)])
                    % UINT16_MOD
    IN  IF kids = <<>> THEN vals[e]
        ELSE IF mean THEN sum \div Len(kids) ELSE sum

IsLeaf(t, e) == children(t, e) = <<>>

\* e's children are three leaves holding 3, 5 and 7
Has357(t, e, vals) ==
    /\ Len(children(t, e)) = 3
    /\ \A i \in 1..3 : IsLeaf(t, children(t, e)[i])
    /\ [i \in 1..3 |-> vals[children(t, e)[i]]] = <<3, 5, 7>>

RECURSIVE Ancestors(_, _)
Ancestors(t, e) == IF t[e] = 0 THEN {} ELSE {t[e]} \cup Ancestors(t, t[e])

\* C8: set_value with operation SET stores the caller's value v on the
\* entity, whatever it held, and a get_value that follows returns v
C8_SetThenGet ==
    [][/\ (CallStep("set_value") /\ HasFlag(call'.c, LAYOUTS_SET_OPERATION_SET)) =>
              lrc' = SLURM_SUCCESS /\ edata'[call'.ent] = call'.v
       /\ (/\ CallStep("get_value")
           /\ call.api = "set_value" /\ HasFlag(call.c, LAYOUTS_SET_OPERATION_SET)
           /\ call'.ent = call.ent) =>
              lrc' = SLURM_SUCCESS /\ vector' = call.v]_vars

\* C9: get_updated_value with direction DOWN returns, for consolidation SUM
\* (MEAN), the sum of the children's consolidated values (divided by the
\* number of children), a leaf's own value for a leaf, and so 15 (5) for a
\* parent of three leaves holding 3, 5 and 7
C9_DownConsolidation ==
    [][(/\ CallStep("get_updated_value") /\ IsTree
        /\ HasFlag(call'.c, LAYOUTS_SET_DIRECTION_DOWN)
        /\ ~HasFlag(call'.c, LAYOUTS_SET_CONSOLIDATION_SET)) =>
           LET mean == HasFlag(call'.c, LAYOUTS_SET_CONSOLIDATION_MEAN)
           IN  /\ lrc' = SLURM_SUCCESS
               /\ vector' = Consolidated(tree, call'.ent, edata, mean)
               /\ Has357(tree, call'.ent, edata) =>
                      vector' = IF mean THEN 5 ELSE 15]_vars

C9_Witness ==
    /\ call.api = "get_updated_value" /\ IsTree
    /\ HasFlag(call.c, LAYOUTS_SET_DIRECTION_DOWN)
    /\ HasFlag(call.c, LAYOUTS_SET_CONSOLIDATION_MEAN)
    /\ Has357(tree, call.ent, edata)
    /\ lrc = SLURM_SUCCESS /\ vector = 5 /\ edata[call.ent] = 5

\* C10: a propagate_value call that sets v on a leaf with direction UP and
\* consolidation SUM returns with every ancestor of the leaf, the root
\* included, increased by v and every entity off that path unchanged
C10_PropagateUp ==
    [][(/\ CallStep("propagate_value") /\ IsTree
        /\ HasFlag(call'.c, LAYOUTS_SET_OPERATION_SET)
        /\ HasFlag(call'.c, LAYOUTS_SET_DIRECTION_UP)
        /\ HasFlag(call'.c, LAYOUTS_SET_CONSOLIDATION_SUM)
        /\ IsLeaf(tree, call'.ent)) =>
           /\ ~lcrashed'
           /\ lrc' = SLURM_SUCCESS
           /\ \A a \in Ancestors(tree, call'.ent) :
                 edata'[a] = (edata[a] + call'.v) % UINT16_MOD
           /\ \A x \in Entities \ (Ancestors(tree, call'.ent) \cup {call'.ent}) :
                 edata'[x] = edata[x]]_vars

\* C11: get_updated_value with direction UP and consolidation SET returns,
\* on a non-root entity, its parent's value, itself taken from the parent's
\* parent, so that the entity and every ancestor hold the root's value; on
\* the root it returns the root's own value, unchanged
C11_UpSetTakesRootValue ==
    [][(/\ CallStep("get_updated_value") /\ IsTree
        /\ HasFlag(call'.c, LAYOUTS_SET_DIRECTION_UP)
        /\ HasFlag(call'.c, LAYOUTS_SET_CONSOLIDATION_SET)) =>
           LET root == xtree_get_root(tree)
           IN  /\ lrc' = SLURM_SUCCESS
               /\ vector' = edata[root]
               /\ edata'[root] = edata[root]
               /\ \A a \in Ancestors(tree, call'.ent) \cup {call'.ent} :
                     edata'[a] = edata[root]]_vars

RECURSIVE Subtree(_, _)
Subtree(t, e) ==
    {e} \cup UNION {Subtree(t, k) : k \in {x \in 1..Len(t) : t[x] = e}}

\* C12: a propagate_value call with operation SET, direction DOWN and
\* consolidation SET of value v on entity E returns with E and every
\* descendant of E holding v and every entity outside E's subtree unchanged
C12_PropagateDown ==
    [][(/\ CallStep("propagate_value") /\ IsTree
        /\ HasFlag(call'.c, LAYOUTS_SET_OPERATION_SET)
        /\ HasFlag(call'.c, LAYOUTS_SET_DIRECTION_DOWN)
        /\ HasFlag(call'.c, LAYOUTS_SET_CONSOLIDATION_SET)) =>
           /\ ~lcrashed' /\ ~lhung'
           /\ lrc' = SLURM_SUCCESS
           /\ \A x \in Entities :
                 edata'[x] = IF x \in Subtree(tree, call'.ent) THEN call'.v
                             ELSE edata[x]]_vars

\* this step is a call of layouts_api, through any wrapper
AnyCall == ncalls' = ncalls + 1

Directed(c) ==
    \/ HasFlag(c, LAYOUTS_SET_DIRECTION_UP) \/ HasFlag(c, LAYOUTS_SET_DIRECTION_DOWN)
    \/ HasFlag(c, LAYOUTS_SET_CONSOLIDATION_SUM)
    \/ HasFlag(c, LAYOUTS_SET_CONSOLIDATION_MEAN)
    \/ HasFlag(c, LAYOUTS_SET_CONSOLIDATION_SET)

\* C16: on a layout that is not a tree, a call with a direction or a
\* consolidation bit returns an error and leaves every entity value as it was
C16_NonTreeRejectsDirection ==
    [][(AnyCall /\ ~IsTree /\ Directed(call'.c)) =>
           /\ lrc' = SLURM_ERROR
           /\ edata' = edata
           /\ ~lcrashed' /\ ~lhung']_vars

C16_Witness ==
    /\ ~IsTree
    /\ call.api = "propagate_value"
    /\ HasFlag(call.c, LAYOUTS_SET_DIRECTION_DOWN)
    /\ HasFlag(call.c, LAYOUTS_SET_CONSOLIDATION_SET)
    /\ lrc = SLURM_ERROR /\ ~lcrashed /\ ~lhung
    /\ edata = <<1, 2, 3, 5, 7>>

\* C17: a call that names a layout type that is not registered, a key the
\* layout does not define, or no entity returns an error and changes no
\* entity value
C17_BadArgumentsRejected ==
    [][(/\ AnyCall
        /\ \/ call'.layout_type # LayoutType
           \/ call'.key_type # KeyType
           \/ call'.ent = 0) =>
           /\ lrc' = SLURM_ERROR
           /\ edata' = edata
           /\ ~lcrashed' /\ ~lhung']_vars

\* the combinations of direction and consolidation that are not supported
Unsupported(api, c) ==
    LET up   == HasFlag(c, LAYOUTS_SET_DIRECTION_UP)
        down == HasFlag(c, LAYOUTS_SET_DIRECTION_DOWN)
        sum  == HasFlag(c, LAYOUTS_SET_CONSOLIDATION_SUM)
        mean == HasFlag(c, LAYOUTS_SET_CONSOLIDATION_MEAN)
        set  == HasFlag(c, LAYOUTS_SET_CONSOLIDATION_SET)
    IN  \/ api = "get_updated_value" /\ ((up /\ (sum \/ mean)) \/ (down /\ set))
        \/ api = "propagate_value" /\ ((up /\ (mean \/ set)) \/ (down /\ (sum \/ mean)))

\* C18: a call with an unsupported combination of direction and
\* consolidation returns an error status and changes no entity value
C18_UnsupportedRejected ==
    [][(/\ \E api \in {"get_updated_value", "propagate_value"} :
              CallStep(api) /\ Unsupported(api, call'.c)
        /\ IsTree) =>
           /\ lrc' = SLURM_ERROR
           /\ edata' = edata
           /\ ~lcrashed' /\ ~lhung']_vars

\* the entity values after caller th's call ran alone on values vals
Alone(th, vals) ==
    layouts_api(LAYOUTS_API_SET, LayoutType, KeyType, <<thr[th].ent>>, struct_type,
                tree, thr[th].c, thr[th].v, vals).vals

\* C19: when two concurrent SET calls have both returned, the entity values
\* are those of one of the two serial executions of the same calls; two SUM
\* calls adding a and b to one entity leave it at its initial value plus a
\* plus b
C19_SetCallsSerializable ==
    (\A th \in Threads : thr[th].pc = "done") =>
        /\ edata \in {Alone(2, Alone(1, edata0)), Alone(1, Alone(2, edata0))}
        /\ (/\ thr[1].ent = thr[2].ent
            /\ \A th \in Threads : thr[th].c = LAYOUTS_SET_OPERATION_SUM
                                              + LAYOUTS_SET_DIRECTION_NONE) =>
               edata[thr[1].ent] = (edata0[thr[1].ent] + thr[1].v + thr[2].v)
                                       % UINT16_MOD

(***************************************************************************)
(* Claims about loading the configuration                                  *)
(***************************************************************************)
\* a step that is a call of slurm_layouts_load_config
LoadStep == nloads' = nloads + 1

\* a load that finds the registry empty and gets through stage 0
FirstLoad == LoadStep /\ xhash_count(mgr.entities) = 0 /\ conf.fail = 0

\* the entity a line names, as the lines before it left it
Before(i) ==
    read_entities(load_nodes(EmptyMgr, conf.nodes, 1, 0).mgr.entities,
                  SubSeq(conf.lines, 1, i - 1), 1).entities[conf.lines[i].name]

\* line i names an entity already registered with a type and gives an
\* allowed Type
Redeclares(i) ==
    /\ i \in 1..Len(conf.lines)
    /\ Before(i).present
    /\ Before(i).type \in etypes
    /\ conf.lines[i].type \in etypes

\* C13: an Entity line naming an already registered entity with a Type that
\* differs from the registered one is rejected, the entity keeping its type
\* and every attribute; with the same Type the line is accepted and its
\* attributes are merged into the entity
C13_RedeclaredEntity ==
    [][(FirstLoad /\ Redeclares(3)) =>
           LET line == conf.lines[3]
               e    == mgr'.entities[line.name]
           IN  /\ ~ldcrashed'
               /\ e.type = Before(3).type
               /\ IF line.type # Before(3).type
                  THEN e.attr = Before(3).attr
                  ELSE e.attr = line.attr]_vars

\* C14: slurm_layouts_load_config called on a manager whose registry already
\* holds entities returns success and leaves entities, layouts and trees as
\* they were
C14_SecondLoadIsNoop ==
    [][(LoadStep /\ xhash_count(mgr.entities) # 0) =>
           /\ ~ldcrashed'
           /\ ldrc' = SLURM_SUCCESS
           /\ mgr' = mgr]_vars

LoadedTree ==
    <<[entity |-> "R", parent |-> 0], [entity |-> "A", parent |-> 1],
      [entity |-> "B", parent |-> 1], [entity |-> "C", parent |-> 2]>>

C14_Witness ==
    /\ nloads = 2 /\ ldrc = SLURM_SUCCESS /\ ~ldcrashed
    /\ mgr.tree = LoadedTree
    /\ mgr.base = 2 /\ mgr.layouts = 2

\* the Enclosed list the configuration declares for entity n
Declared(n) ==
    LET own == SelectSeq(conf.lines,
                         LAMBDA l : l.name = n /\ l.type \in etypes /\ l.enclosed # <<>>)
    IN  IF own = <<>> THEN <<>> ELSE own[1].enclosed

\* the nodes of tr in depth-first order from node
RECURSIVE Dfs(_, _)
Dfs(tr, todo) ==
    IF todo = <<>> THEN <<>>
    ELSE <<Head(todo)>> \o Dfs(tr, tree_children(tr, Head(todo)) \o Tail(todo))

\* C15: a successful load builds the tree of the Root and Enclosed
\* directives: the Root entity is the root, the children of a node are the
\* names of its entity's Enclosed list that resolve, in the declared order
\* (Root=R, R enclosing A,B and A enclosing C give R -> (A, B), A -> (C)
\* with B and C leaves), and a depth-first walk from the root visits each
\* node exactly once
C15_TreeFromEnclosed ==
    [][(FirstLoad /\ ~ldcrashed' /\ ldrc' = SLURM_SUCCESS) =>
           LET tr == mgr'.tree
               walk == Dfs(tr, <<1>>)
           IN  /\ tr # <<>>
               /\ tr[1] = [entity |-> conf.root, parent |-> 0]
               /\ \A k \in 2..Len(tr) : tr[k].parent \in 1..Len(tr)
               /\ \A k \in 1..Len(tr) :
                     [j \in 1..Len(tree_children(tr, k)) |->
                          tr[tree_children(tr, k)[j]].entity]
                       = SelectSeq(Declared(tr[k].entity),
                                   LAMBDA n : mgr'.entities[n].present)
               /\ Len(walk) = Len(tr)
               /\ {walk[j] : j \in 1..Len(walk)} = 1..Len(tr)
               /\ (/\ conf.lines[1].enclosed = <<"A", "B">>
                   /\ Declared("A") = <<"C">>) => tr = LoadedTree]_vars

C15_Witness ==
    /\ nloads = 1 /\ ldrc = SLURM_SUCCESS /\ ~ldcrashed
    /\ conf.lines[1].enclosed = <<"A", "X", "B">>
    /\ mgr.tree = LoadedTree

\* C20: a call of slurm_layouts_load_config that returns an error leaves the
\* manager with no entity and no tree node of the failed load, and a call
\* that finds what a failed load left behind does not report success
C20_FailedLoadLeavesNothing ==
    [][LoadStep =>
           /\ (~ldcrashed' /\ ldrc' = SLURM_ERROR) =>
                  /\ xhash_count(mgr'.entities) = 0
                  /\ mgr'.tree = <<>>
           /\ (nloads >= 1 /\ ldrc = SLURM_ERROR) => ldrc' # SLURM_SUCCESS]_vars

\* a step that is a call of slurm_layouts_fini
FiniStep == nfinis' = nfinis + 1

\* C21: slurm_layouts_fini called on a manager an earlier call has torn down
\* returns success and neither releases nor accesses a registry that the
\* earlier call released
C21_FiniTwice ==
    [][(FiniStep /\ nfinis >= 1) =>
           /\ ~ldcrashed'
           /\ finrc' = SLURM_SUCCESS
           /\ refreed' = {}]_vars

\* C22: layouts_api_update_value_from on a loaded tree layout, with the
\* registered key, an existing entity and direction UP with consolidation SUM
\* or direction DOWN with consolidation SET, returns success; with DOWN and
\* SET every descendant of the entity then holds the entity's value, and
\* no entity that is not reached from the named one is changed
C22_UpdateValueFrom ==
    [][(/\ CallStep("update_value_from") /\ IsTree
        /\ call'.c \in {LAYOUTS_SET_DIRECTION_UP + LAYOUTS_SET_CONSOLIDATION_SUM,
                        LAYOUTS_SET_DIRECTION_DOWN + LAYOUTS_SET_CONSOLIDATION_SET}) =>
           /\ ~lcrashed' /\ ~lhung'
           /\ lrc' = SLURM_SUCCESS
           /\ HasFlag(call'.c, LAYOUTS_SET_DIRECTION_DOWN) =>
                  /\ \A x \in Subtree(tree, call'.ent) : edata'[x] = edata[call'.ent]
                  /\ \A x \in Entities \ Subtree(tree, call'.ent) : edata'[x] = edata[x]
           /\ HasFlag(call'.c, LAYOUTS_SET_DIRECTION_UP) =>
                  \A x \in Entities \ Ancestors(tree, call'.ent) : edata'[x] = edata[x]]_vars

\* C23: while the layouts slurm_layouts_init loaded are registered, a
\* look-up whose layout_type is the type of a loaded layout, configured as
\* `type` or as `type/name`, finds that layout's plugin and the key
\* registered for it
C23_ResolvesByType ==
    [][(/\ resolved' # resolved
        /\ plugins # <<>>
        /\ resolved'.layout_type = plugins[1].layout.type) =>
           /\ resolved'.plugin = plugins[1]
           /\ resolved'.key]_vars

(***************************************************************************)
(* Claims about the handlers of the event loop                             *)
(***************************************************************************)
\* this step is the write handler _write run on object o
WriteStep(o) == WriteClose(o) \/ WriteData(o) \/ WriteAgain(o) \/ WriteError(o)

Connection(o) ==
    /\ o \in (GERR + 1)..io.nobj
    /\ io.otype[o] \in {"CLIENT_STDOUT", "CLIENT_STDERR"}
    /\ io.ops[o].handle_write = "connecting_write" \/ io.ops[o] = client_ops

Connecting(g, o) == InSeq(g.objs, o) /\ g.ops[o].handle_write = "connecting_write"

C26_EveryReaderOfferedAll ==
    [][\A t \in {TOUT, TERR} :
          produced'[t] > produced[t] =>
              \A r \in Range(io.readers[t]) :
                  io'.buf[r] = cbuf_write(io.buf[r], Bytes(produced[t], produced'[t]),
                                          BufCap(io.otype[r])).buf]_vars

\* this step is a handler run on o whose read or write fails with EAGAIN
EagainStep(o) ==
    \/ TaskReadErr(o, "EAGAIN")
    \/ ClientReadErr(o, "EAGAIN")
    \/ WriteAgain(o)
    \/ ConnectingWriteAgain(o)

\* C27: a handler whose read or write fails with EAGAIN returns to the event
\* loop, which goes on running: the object is not closed, no failure is
\* returned and the process is not terminated; this for the task read, the
\* client read, the write and the connecting write handlers
C27_EagainIsDeferred ==
    [][\A o \in Objs :
          EagainStep(o) =>
              /\ io' = io
              /\ rc' = 0
              /\ ~crashed'
              /\ loop' = "running"]_vars

\* this step is a handler run on o whose read or write fails with a hard
\* error, or whose read finds that the peer has closed
HardFailureStep(o) ==
    \/ TaskReadErr(o, "EIO")
    \/ ClientReadErr(o, "EIO")
    \/ WriteError(o)
    \/ ConnectingWriteError(o)
    \/ TaskReadEof(o)
    \/ ClientReadEof(o)

\* C28: when a read or a write on an object fails with a hard error, or the
\* peer closes, the object is closed: a client becomes a disconnected ghost,
\* a task output sets the EOF flag of all its readers and the task input
\* that of all its writers
C28_HardFailureCloses ==
    [][\A o \in Objs :
          HardFailureStep(o) =>
              /\ ~crashed'
              /\ io'.fd[o] = NOFD
              /\ isa_client(io, o) => io'.disc[o]
              /\ io.otype[o] \in {"TASK_STDOUT", "TASK_STDERR"} =>
                     \A r \in Range(io.readers[o]) : io'.eof[r]
              /\ io.otype[o] = "TASK_STDIN" =>
                     \A w \in Range(io.writers[o]) : io'.eof[w]]_vars

\* this step is made by the controlling thread (io_spawn_handler after
\* pthread_create)
CtlStep == IoAddConnecting \/ OpenOutputFile \/ OpenStdinFile

\* C29: the object graph of a job is changed by the event loop thread only:
\* no step of the controlling thread changes the graph while the event loop
\* is running
C29_GraphOwnedByLoop ==
    [][(CtlStep /\ loop = "running" /\ ~crashed) => io' = io]_vars

\* C30: when the event loop exits, a warning with a byte count is logged for
\* each of the task's stdout and stderr of which some reader still holds
\* bytes in its buffer
C30_UnprocessedReported ==
    [][(loop = "running" /\ loop' = "exited") =>
           \A w \in {TOUT, TERR} :
               (\E r \in Range(io.readers[w]) : Len(io.buf[r]) > 0) =>
                   hist'.unprocessed[w] > 0]_vars

\* the types of the objects on a list
TypesOf(g, l) == {g.otype[x] : x \in Range(l)}

\* C31: in every state of a job's graph the readers of the task's stdout are
\* client stdout objects and those of its stderr client stderr objects, the
\* writers of the task's stdin are client stdout or client stdin objects, a
\* client stdout has at most one reader, a task stdin, and at most one
\* writer, a task stdout, a client stderr has no readers and a client stdin
\* no writers
C31_ListsAreTyped ==
    \A o \in 1..io.nobj :
        LET t == io.otype[o]
        IN  /\ t = "TASK_STDOUT" => TypesOf(io, io.readers[o]) \subseteq {"CLIENT_STDOUT"}
            /\ t = "TASK_STDERR" => TypesOf(io, io.readers[o]) \subseteq {"CLIENT_STDERR"}
            /\ t = "TASK_STDIN" =>
                   TypesOf(io, io.writers[o]) \subseteq {"CLIENT_STDOUT", "CLIENT_STDIN"}
            /\ t = "CLIENT_STDOUT" =>
                   /\ TypesOf(io, io.readers[o]) \subseteq {"TASK_STDIN"}
                   /\ TypesOf(io, io.writers[o]) \subseteq {"TASK_STDOUT"}
                   /\ Len(io.readers[o]) <= 1
                   /\ Len(io.writers[o]) <= 1
            /\ t = "CLIENT_STDERR" => io.readers[o] = <<>>
            /\ t = "CLIENT_STDIN" => io.writers[o] = <<>>

\* a client has been attached beside the ghost, and the task's stdin has a writer
C31_Witness ==
    /\ \E w \in {TOUT, TERR} : Len(io.readers[w]) > 1
    /\ \E o \in 1..io.nobj : isa_client(io, o) /\ io.readers[o] # <<>>

\* C32: stage 2 of a load starts only after stage 1 has succeeded for every
\* configured layout: a load whose stage 1 fails builds no relation, that is,
\* attaches no entity under a node of a layout's tree
C32_RelationsAfterEntities ==
    [][(LoadStep /\ ~ldcrashed' /\ xhash_count(mgr.entities) = 0
            /\ ldrc' = SLURM_ERROR) =>
           \A k \in 1..Len(mgr'.tree) : mgr'.tree[k].parent = 0]_vars

\* C33: a SET with operation SUM, direction UP and consolidation SUM that
\* names several entities and returns has added the value to each named
\* entity and, for each named entity, to every one of its proper ancestors,
\* whatever the order of the names and whether or not the root is named
C33_UpSumEveryNamedEntity ==
    [][(/\ CallStep("propagate_values") /\ ~lcrashed'
        /\ HasFlag(call'.c, LAYOUTS_SET_OPERATION_SUM)) =>
           \A x \in Entities :
               LET names == call'.names
                   times == Cardinality({i \in 1..Len(names) :
                                x \in Ancestors(tree, names[i]) \cup {names[i]}})
               IN  edata'[x] = (edata[x] + times * call'.v) % UINT16_MOD]_vars

\* C34: every SET call with a direction comes to an end on every tree: no
\* such call loops for ever, whatever the number of children of the nodes it
\* walks
C34_DirectedSetTerminates ==
    [][(/\ CallStep("propagate_value") /\ IsTree
        /\ \/ HasFlag(call'.c, LAYOUTS_SET_DIRECTION_UP)
           \/ HasFlag(call'.c, LAYOUTS_SET_DIRECTION_DOWN)) => ~lhung']_vars

\* C35: an object whose descriptor has been closed (set to -1) is reported
\* neither readable nor writable to the event loop, so its handlers are not
\* run again
C35_ClosedIsIdle ==
    \A o \in 1..io.nobj :
        io.fd[o] = NOFD => ~PollIn(io, o) /\ ~PollOut(io, o)

\* C36: no object is on the job's object list more than once
C36_ObjsHasNoDuplicate ==
    \A i, k \in 1..Len(io.objs) : i # k => io.objs[i] # io.objs[k]

C39_ReleasedOnce == \A o \in TeardownObjects : released[o] <= 1

\* the Enclosed tokens of lines i.. that name an entity of the registry
RECURSIVE ResolvedTokens(_, _, _)
ResolvedTokens(lines, entities, i) ==
    IF i > Len(lines) THEN 0
    ELSE Len(SelectSeq(lines[i].enclosed, LAMBDA n : entities[n].present))
         + ResolvedTokens(lines, entities, i + 1)

\* C40: stage 2 ends for every configuration, the cyclic ones and the ones
\* naming an entity under several parents included: every entity that has a
\* node in the tree has had its stashed Enclosed list taken, and the tree has
\* at most one node per resolved Enclosed token plus the root
C40_TreeBoundedByTokens ==
    /\ Len(mgr.tree) <= 1 + ResolvedTokens(conf.lines, mgr.entities, 1)
    /\ \A k \in 1..Len(mgr.tree) : mgr.entities[mgr.tree[k].entity].enclosed = <<>>
\* a load has built a tree in which R stands below itself and A has two nodes
C40_Witness ==
    /\ nloads >= 1 /\ ~ldcrashed
    /\ \E k \in 1..Len(mgr.tree) :
          mgr.tree[k].entity = "R" /\ mgr.tree[k].parent # 0
    /\ Cardinality({k \in 1..Len(mgr.tree) : mgr.tree[k].entity = "A"}) >= 2

====
